---- MODULE Spec2Model ----
(***************************************************************************)
(* Email-classification and application-reconciliation engine of the      *)
(* CareerSuite.AI Apps Script backend:                                     *)
(*   - applyFinalLabels (unnamed/part_001), the Gmail label transition,    *)
(*   - processJobApplicationEmails v8.1 (unnamed/part_001), the engine     *)
(*     that de-duplicates by the message ids stored in the sheet,          *)
(*   - _processingEngine and _trackerDataHandler (Main.js), the batched    *)
(*     engine with the company index,                                      *)
(*   - markStaleApplicationsAsRejected (Main.js), the stale sweep,        *)
(*   - processJobLeadsWithGemini (Career_Suite_AI_v2.5-main/code.gs),     *)
(*   - parseCompanyFromDomain (unnamed/part_001), the sender fallback,     *)
(*   - callGemini_forApplicationDetails (unnamed/part_000), the AI call,   *)
(*   - parseBodyForStatus (unnamed/part_001), the keyword scan.            *)
(***************************************************************************)
EXTENDS Integers, Sequences, FiniteSets, TLC

VARIABLES
    labels,     \* Gmail: thread -> set of label names the thread carries
    lastApply,  \* history: the applyFinalLabels call of the last step (NoApply when none)
    arrived,    \* Gmail: arrived[m] is the thread of message m; ids in order of receipt
    sheet,      \* the data rows of the tracker tab (sheet row n+1 is sheet[n])
    now,        \* the day the last stale sweep ran on
    run,        \* the locals of the processing run in progress (Idle when none)
    hist,       \* history: the message ids that have entered a processed-id set
    missing,    \* configuration: the items a run needs that are not there
    overlapped  \* the locals of a run that another run overlaps (Idle when none)

vars == <<labels, lastApply, arrived, sheet, now, run, hist, missing, overlapped>>

-----------------------------------------------------------------------------
(* Bounds of the model *)

NThreads == 2
MaxMsgs == 2
MaxRows == 2

Threads == 1..NThreads

-----------------------------------------------------------------------------
(* Configuration constants *)

GMAIL_LABEL_TO_PROCESS == "AppToProcess"
GMAIL_LABEL_APPLIED_AFTER_PROCESSING == "AppDONEProcess"
GMAIL_LABEL_MANUAL_REVIEW == "ManualReviewNeeded"

LabelNames ==
    {GMAIL_LABEL_TO_PROCESS, GMAIL_LABEL_APPLIED_AFTER_PROCESSING, GMAIL_LABEL_MANUAL_REVIEW}

DEFAULT_STATUS == "Applied"
REJECTED_STATUS == "Rejected"
ACCEPTED_STATUS == "Offer/Accepted"
INTERVIEW_STATUS == "Interview Scheduled"
ASSESSMENT_STATUS == "Assessment/Screening"
MANUAL_REVIEW_NEEDED == "N/A - Manual Review Needed"

\* no processing run is in progress
Idle == [pc |-> "idle"]

\* What a run looks up before it touches a message: the Gemini API key, the
\* data tab, the three Gmail labels. An item is missing when the look-up
\* (for the labels of version 8.1: the look-up and the creation) gives nothing.
RequiredLabels == {"procLbl", "processedLblObj", "manualLblObj"}
RequiredItems == {"dataSheet"} \cup RequiredLabels
ConfigItems == {"geminiApiKey"} \cup RequiredItems

\* history of a run that returned on a failed configuration check
ConfigAbort == [applied |-> FALSE, aborted |-> TRUE]

-----------------------------------------------------------------------------
(* applyFinalLabels *)

NoApply == [applied |-> FALSE]

\* The Gmail calls of one applyFinalLabels invocation that fail, for every
\* thread of the invocation alike: getThreadById finding no thread,
\* removeLabel throwing, addLabel throwing.
GmailFaults ==
    {{}, {"removeLabel"}, {"addLabel"}, {"removeLabel", "addLabel"}, {"getThreadById"}}

Outcomes == {"done", "manual"}
NoOutcome == "none"

\* targetLabelObject of the loop body
targetLabel(outcome) ==
    IF outcome = "manual" THEN GMAIL_LABEL_MANUAL_REVIEW
    ELSE GMAIL_LABEL_APPLIED_AFTER_PROCESSING

\* the loop body without the checks of the labels the thread carries
labelCallsUnchecked(currentLabels, outcome, faults) ==
    IF "getThreadById" \in faults THEN {} ELSE {"removeLabel", "addLabel"}

\* The label calls the loop body makes for one thread carrying currentLabels.
labelCalls(currentLabels, outcome, faults) ==
    IF "getThreadById" \in faults THEN {}
    ELSE (IF GMAIL_LABEL_TO_PROCESS \in currentLabels THEN {"removeLabel"} ELSE {})
         \cup (IF targetLabel(outcome) \notin currentLabels THEN {"addLabel"} ELSE {})

\* the loop body that also takes the other terminal label from the thread
labelsAfterExclusive(currentLabels, outcome, faults) ==
    LET done == labelCalls(currentLabels, outcome, faults) \ faults
    IN  (currentLabels
            \ ((IF "removeLabel" \in done THEN {GMAIL_LABEL_TO_PROCESS} ELSE {})
               \cup (IF "addLabel" \in done
                     THEN {GMAIL_LABEL_APPLIED_AFTER_PROCESSING, GMAIL_LABEL_MANUAL_REVIEW}
                     ELSE {})))
        \cup (IF "addLabel" \in done THEN {targetLabel(outcome)} ELSE {})

\* The labels of the thread after the loop body.
labelsAfter(currentLabels, outcome, faults) ==
    LET done == labelCalls(currentLabels, outcome, faults) \ faults
    IN  (currentLabels \ (IF "removeLabel" \in done THEN {GMAIL_LABEL_TO_PROCESS} ELSE {}))
        \cup (IF "addLabel" \in done THEN {targetLabel(outcome)} ELSE {})

\* applyFinalLabels(processedThreadOutcomes, ...): outcomes maps each thread to
\* "done", "manual" or NoOutcome (the thread is no key of the object).
applyFinalLabels(outcomes, faults) ==
    labels' = [t \in Threads |->
                 IF outcomes[t] = NoOutcome THEN labels[t]
                 ELSE labelsAfter(labels[t], outcomes[t], faults)]

\* history of a call: its arguments, the labels before it, the Gmail calls made
applyRecord(outcomes, faults) ==
    [applied |-> TRUE, outcomes |-> outcomes, before |-> labels, faults |-> faults,
     calls |-> {c \in Threads \X {"removeLabel", "addLabel"} :
                  /\ outcomes[c[1]] # NoOutcome
                  /\ c[2] \in labelCalls(labels[c[1]], outcomes[c[1]], faults)}]

\* history of a call made by a processing run: the caller, whether every
\* Gmail call went through, the threads whose labels the call changed, the
\* messages the run flagged (version 8.1: those whose sheet write failed;
\* _processingEngine: those whose company was not resolved)
runApplyRecord(caller, faults, flagged) ==
    [applied |-> TRUE, caller |-> caller, faultless |-> faults = {},
     changed |-> {t \in Threads : labels'[t] # labels[t]}, flagged |-> flagged]

-----------------------------------------------------------------------------
(* Specification of the label transition alone: any labels, any outcomes *)

LabelsInit ==
    /\ labels = [t \in Threads |-> {}]
    /\ lastApply = NoApply
    /\ arrived = <<>>
    /\ sheet = <<>>
    /\ now = 0
    /\ run = Idle
    /\ hist = {}
    /\ missing = {}
    /\ overlapped = Idle

\* The user (or a Gmail filter) sets the labels of a thread.
UserSetsLabels ==
    \E t \in Threads, L \in SUBSET LabelNames :
        /\ labels' = [labels EXCEPT ![t] = L]
        /\ lastApply' = NoApply
        /\ UNCHANGED <<arrived, sheet, now, run, hist, missing, overlapped>>

CallApplyFinalLabels ==
    \E outcomes \in [Threads -> Outcomes \cup {NoOutcome}], faults \in GmailFaults :
        /\ applyFinalLabels(outcomes, faults)
        /\ lastApply' = applyRecord(outcomes, faults)
        /\ UNCHANGED <<arrived, sheet, now, run, hist, missing, overlapped>>

LabelsNext == UserSetsLabels \/ CallApplyFinalLabels

SpecLabels == LabelsInit /\ [][LabelsNext]_vars

-----------------------------------------------------------------------------
(* Gmail: the messages *)

\* Message m belongs to thread threadOf(m) and was received on day dateOf(m);
\* messages are numbered in the order of their receipt.
threadOf(m) == arrived[m]
dateOf(m) == m

\* thread.getMessages(): the messages of the thread, oldest first
getMessages(t) == {m \in 1..Len(arrived) : threadOf(m) = t}

\* label.getThreads(): the threads that carry the label
getThreads(label) == {t \in Threads : label \in labels[t]}

RECURSIVE SetToSeq(_)
\* a set of numbers as a sequence in ascending order
SetToSeq(S) ==
    IF S = {} THEN <<>>
    ELSE LET x == CHOOSE y \in S : \A z \in S : y <= z
         IN  <<x>> \o SetToSeq(S \ {x})

RECURSIVE FlatMessages(_)
\* the messages of the threads (a sequence of thread ids), thread after thread
FlatMessages(ts) ==
    IF ts = <<>> THEN <<>>
    ELSE SetToSeq(getMessages(Head(ts))) \o FlatMessages(Tail(ts))

RECURSIVE NewestFirst(_)
\* label.getThreads() as an array: Gmail lists the threads by their latest
\* message, newest first
NewestFirst(S) ==
    IF S = {} THEN <<>>
    ELSE LET latest(t) == IF getMessages(t) = {} THEN 0
                          ELSE CHOOSE m \in getMessages(t) :
                                   \A n \in getMessages(t) : dateOf(n) <= dateOf(m)
             x == CHOOSE t \in S : \A u \in S : latest(u) <= latest(t)
         IN  <<x>> \o NewestFirst(S \ {x})

\* the messages in the order they were fetched
unsorted(s) == s

RECURSIVE InsertByDate(_, _)
InsertByDate(m, s) ==
    IF s = <<>> THEN <<m>>
    ELSE IF dateOf(m) < dateOf(Head(s)) THEN <<m>> \o s
    ELSE <<Head(s)>> \o InsertByDate(m, Tail(s))

RECURSIVE SortByDate(_)
\* Array.prototype.sort((a, b) => a.date - b.date): stable, ascending by date
SortByDate(s) ==
    IF s = <<>> THEN <<>>
    ELSE InsertByDate(s[Len(s)], SortByDate(SubSeq(s, 1, Len(s) - 1)))

\* A message is received in a thread that has messages or in the next new
\* thread; the Gmail filter puts the thread under the to-process label.
Arrive ==
    /\ Len(arrived) < MaxMsgs
    /\ \E t \in Threads :
         /\ \A u \in 1..(t - 1) : getMessages(u) # {}
         /\ arrived' = Append(arrived, t)
         /\ labels' = [labels EXCEPT ![t] = @ \cup {GMAIL_LABEL_TO_PROCESS}]
    /\ lastApply' = NoApply
    /\ UNCHANGED <<sheet, now, run, hist, missing, overlapped>>

\* The user puts a thread under the to-process label again.
UserRelabels ==
    \E t \in Threads :
        /\ getMessages(t) # {}
        /\ GMAIL_LABEL_TO_PROCESS \notin labels[t]
        /\ labels' = [labels EXCEPT ![t] = @ \cup {GMAIL_LABEL_TO_PROCESS}]
        /\ lastApply' = NoApply
        /\ UNCHANGED <<arrived, sheet, now, run, hist, missing, overlapped>>

-----------------------------------------------------------------------------
(* Classification results *)

Null == "null"

\* the company names of the model
Companies == {MANUAL_REVIEW_NEEDED, "Acme Corp", "ACME CORP"}

\* String.prototype.toLowerCase on the strings of the model
toLowerCase(s) ==
    CASE s = "Acme Corp" -> "acme corp"
      [] s = "ACME CORP" -> "acme corp"
      [] s = "Engineer" -> "engineer"
      [] s = "ENGINEER" -> "engineer"
      [] s = "Designer" -> "designer"
      [] s = MANUAL_REVIEW_NEEDED -> "n/a - manual review needed"
      [] OTHER -> s

\* what parseBodyForStatus returns: null or the status of the first keyword
\* list that matches (bodies of the model match no other list)
BodyStatuses == {Null, INTERVIEW_STATUS, REJECTED_STATUS}

\* what extractCompanyAndTitle returns on the messages of the model
RegexResults ==
    {[company |-> MANUAL_REVIEW_NEEDED, title |-> MANUAL_REVIEW_NEEDED],
     [company |-> "Acme Corp", title |-> MANUAL_REVIEW_NEEDED],
     [company |-> "Acme Corp", title |-> "Engineer"],
     [company |-> "ACME CORP", title |-> "ENGINEER"]}

-----------------------------------------------------------------------------
(* Sheet rows *)

NoId == 0

\* The columns of a row the engines read or write (peak is the Peak Status
\* column, which the v8.1 script does not have: "" there).
Row(company, title, status, peak, lastUpdate, emailId) ==
    [company |-> company, title |-> title, status |-> status, peak |-> peak,
     lastUpdate |-> lastUpdate, emailId |-> emailId]

\* sheet row number of the n-th data row (row 1 is the header)
rowNum(n) == n + 1
\* index in sheet of sheet row number r
rowIdx(r) == r - 1

CompanyKeys == {toLowerCase(c) : c \in Companies}

RECURSIVE Descending(_)
\* a set of numbers as a sequence in descending order
Descending(S) ==
    IF S = {} THEN <<>>
    ELSE LET x == CHOOSE y \in S : \A z \in S : y >= z
         IN  <<x>> \o Descending(S \ {x})

-----------------------------------------------------------------------------
(* processJobApplicationEmails, version 8.1 (unnamed/part_001) *)

\* 1. Pre-load: the processed ids, from the Email ID column
preloadIds == {sheet[n].emailId : n \in 1..Len(sheet)} \ {NoId}

\* 1. Pre-load: company -> its rows, latest row first
preloadCompanies ==
    [k \in CompanyKeys |->
        LET ns == Descending({n \in 1..Len(sheet) :
                                 /\ toLowerCase(sheet[n].company) = k
                                 /\ k # ""
                                 /\ k # "n/a"
                                 /\ k # toLowerCase(MANUAL_REVIEW_NEEDED)})
        IN  [i \in 1..Len(ns) |->
                [row |-> rowNum(ns[i]), emailId |-> sheet[ns[i]].emailId,
                 company |-> sheet[ns[i]].company, title |-> sheet[ns[i]].title]]]

\* 2. Gather: the messages of the to-process threads whose id is not known
gatherNew(existIds) ==
    SelectSeq(FlatMessages(NewestFirst(getThreads(GMAIL_LABEL_TO_PROCESS))),
              LAMBDA m : m \notin existIds)

NoOutcomes == [t \in Threads |-> NoOutcome]

\* the clean-up marking the threads for manual review instead
staleLabelOutcomesManual ==
    [t \in Threads |->
        IF GMAIL_LABEL_TO_PROCESS \in labels[t] THEN "manual" ELSE NoOutcome]

\* Early exit: the to-process threads, none with a new message, are cleaned up
staleLabelOutcomes ==
    [t \in Threads |->
        IF GMAIL_LABEL_TO_PROCESS \in labels[t] THEN "done" ELSE NoOutcome]

\* Initial setup and validation: the tab and the three labels are there
v1ConfigOk == missing \cap RequiredItems = {}

\* The run returns on a failed validation.
V1ConfigAborts ==
    /\ run = Idle
    /\ ~v1ConfigOk
    /\ lastApply' = ConfigAbort
    /\ UNCHANGED <<labels, arrived, sheet, now, run, hist, missing, overlapped>>

\* The run starts: pre-load, gather, sort.
V1Start ==
    /\ run = Idle
    /\ v1ConfigOk
    /\ gatherNew(preloadIds) # <<>>
    /\ run' = [pc |-> "loop",
               existD |-> preloadCompanies,
               existIds |-> preloadIds,
               msgToSort |-> SortByDate(gatherNew(preloadIds)),
               threadOutcomes |-> NoOutcomes,
               failed |-> {}]
    /\ lastApply' = NoApply
    /\ UNCHANGED <<labels, arrived, sheet, now, hist, missing, overlapped>>

\* The run finds no new message: it ends at once, after the label clean-up of
\* the threads still under the to-process label.
V1EarlyExit ==
    /\ run = Idle
    /\ v1ConfigOk
    /\ gatherNew(preloadIds) = <<>>
    /\ getThreads(GMAIL_LABEL_TO_PROCESS) # {}
    /\ \E faults \in GmailFaults :
         /\ applyFinalLabels(staleLabelOutcomes, faults)
         /\ lastApply' = runApplyRecord("earlyExit", faults, {})
    /\ UNCHANGED <<arrived, sheet, now, run, hist, missing, overlapped>>

\* H. the thread outcome after a message of the thread
v1Outcome(threadOutcomes, t, currentMsgOutcome) ==
    IF threadOutcomes[t] = NoOutcome \/ threadOutcomes[t] = "done"
    THEN [threadOutcomes EXCEPT ![t] = currentMsgOutcome]
    ELSE threadOutcomes

\* the update with the parsed company and title written as they are
v1UpdatedRowUnguarded(cur, entry, company, title, kw, m) ==
    [cur EXCEPT
        !.status = IF kw # Null /\ kw # cur.status THEN kw ELSE cur.status,
        !.company = company,
        !.title = title,
        !.lastUpdate = dateOf(m),
        !.emailId = m]

\* G. update of the latest row of the company
v1UpdatedRow(cur, entry, company, title, kw, m) ==
    [cur EXCEPT
        !.status = IF kw # Null /\ kw # cur.status THEN kw ELSE cur.status,
        !.company = IF company # MANUAL_REVIEW_NEEDED THEN company ELSE entry.company,
        !.title = IF title # MANUAL_REVIEW_NEEDED THEN title ELSE entry.title,
        !.lastUpdate = dateOf(m),
        !.emailId = m]

\* G. the appended row
v1NewRow(company, title, kw, m) ==
    Row(company, title, IF kw # Null THEN kw ELSE DEFAULT_STATUS, "", dateOf(m), m)

\* 3. One pass of the message loop. extracted is what extractCompanyAndTitle
\* returns, kw what parseBodyForStatus returns; writeOk tells whether the
\* sheet write succeeds.
V1Message(extracted, kw, writeOk) ==
    /\ run.pc = "loop"
    /\ run.msgToSort # <<>>
    /\ LET m == Head(run.msgToSort)
           t == threadOf(m)
           company == extracted.company
           title == extracted.title
           needsManual == company = MANUAL_REVIEW_NEEDED \/ title = MANUAL_REVIEW_NEEDED
           lookupKey == toLowerCase(company)
           found == company # MANUAL_REVIEW_NEEDED /\ run.existD[lookupKey] # <<>>
           entry == run.existD[lookupKey][1]
           currentMsgOutcome == IF writeOk /\ ~needsManual THEN "done" ELSE "manual"
           after == [run EXCEPT
                        !.msgToSort = Tail(@),
                        !.existIds = IF writeOk THEN @ \cup {m} ELSE @,
                        !.failed = IF writeOk THEN @ ELSE @ \cup {m},
                        !.threadOutcomes = v1Outcome(@, t, currentMsgOutcome)]
       IN  /\ hist' = IF writeOk THEN hist \cup {m} ELSE hist
           /\ IF found
              THEN LET newValues ==
                           v1UpdatedRow(sheet[rowIdx(entry.row)], entry, company, title, kw, m)
                   IN  IF writeOk
                       THEN /\ sheet' = [sheet EXCEPT ![rowIdx(entry.row)] = newValues]
                            /\ run' = [after EXCEPT !.existD[lookupKey][1] =
                                          [row |-> entry.row, emailId |-> m,
                                           company |-> newValues.company,
                                           title |-> newValues.title]]
                       ELSE /\ UNCHANGED sheet
                            /\ run' = after
              ELSE IF writeOk
                   THEN /\ Len(sheet) < MaxRows
                        /\ sheet' = Append(sheet, v1NewRow(company, title, kw, m))
                        /\ run' = IF company # MANUAL_REVIEW_NEEDED /\ lookupKey # "n/a"
                                  THEN [after EXCEPT !.existD[lookupKey] =
                                           <<[row |-> rowNum(Len(sheet) + 1), emailId |-> m,
                                              company |-> company, title |-> title]>> \o @]
                                  ELSE after
                   ELSE /\ UNCHANGED sheet
                        /\ run' = after
    /\ lastApply' = NoApply
    /\ UNCHANGED <<labels, arrived, now, missing, overlapped>>

V1ProcessMessage ==
    \E extracted \in RegexResults, kw \in BodyStatuses, writeOk \in BOOLEAN :
        V1Message(extracted, kw, writeOk)

\* 3. A pass of the loop that throws outside the sheet write: the catch marks
\* the thread manual.
V1MessageThrows ==
    /\ run.pc = "loop"
    /\ run.msgToSort # <<>>
    /\ run' = [run EXCEPT !.msgToSort = Tail(@),
                          !.threadOutcomes[threadOf(Head(run.msgToSort))] = "manual"]
    /\ lastApply' = NoApply
    /\ UNCHANGED <<labels, arrived, sheet, now, hist, missing, overlapped>>

\* 4. After the loop: the final labels
V1Finish ==
    /\ run.pc = "loop"
    /\ run.msgToSort = <<>>
    /\ \E faults \in GmailFaults :
         /\ applyFinalLabels(run.threadOutcomes, faults)
         /\ lastApply' = runApplyRecord("finish", faults, run.failed)
    /\ run' = Idle
    /\ UNCHANGED <<arrived, sheet, now, hist, missing, overlapped>>

V1Init ==
    /\ labels = [t \in Threads |-> {}]
    /\ lastApply = NoApply
    /\ arrived = <<>>
    /\ sheet = <<>>
    /\ now = 0
    /\ run = Idle
    /\ hist = {}
    /\ missing \in SUBSET RequiredItems
    /\ overlapped = Idle

V1Next ==
    \/ Arrive
    \/ UserRelabels
    \/ V1ConfigAborts
    \/ V1Start
    \/ V1EarlyExit
    \/ V1ProcessMessage
    \/ V1MessageThrows
    \/ V1Finish

SpecV1 == V1Init /\ [][V1Next]_vars

-----------------------------------------------------------------------------
(* Properties of processJobApplicationEmails, version 8.1 *)

\* C1: once a message id has entered the processed-id set, no later pass of
\* the message loop takes that message again (classifies it, writes it).
C1_NeverProcessedAgain ==
    [][(run.pc = "loop" /\ run.msgToSort # <<>> /\ run' # run)
          => Head(run.msgToSort) \notin hist]_vars

\* C2 as stated: a run that finds every message of the to-process threads in
\* the processed-id set changes no row and no label.
C2_ZeroMutations ==
    [][V1EarlyExit => (sheet' = sheet /\ labels' = labels)]_vars

\* C2: a run that finds every message of the to-process threads in the
\* processed-id set changes no row; the labels it changes are those of the
\* threads under the to-process label, which lose at most that label and gain
\* at most the processed label.
C2_RerunOnlyCleansLabels ==
    [][V1EarlyExit =>
          /\ sheet' = sheet
          /\ \A t \in Threads :
               /\ GMAIL_LABEL_TO_PROCESS \notin labels[t] => labels'[t] = labels[t]
               /\ labels[t] \ labels'[t] \subseteq {GMAIL_LABEL_TO_PROCESS}
               /\ labels'[t] \ labels[t] \subseteq {GMAIL_LABEL_APPLIED_AFTER_PROCESSING}]_vars

\* C2 witness: such a run has ended and has cleaned a thread of the to-process
\* label, all of whose messages are in the sheet.
C2_CleanedUp ==
    /\ lastApply.applied
    /\ lastApply.caller = "earlyExit"
    /\ \E t \in lastApply.changed :
         /\ GMAIL_LABEL_TO_PROCESS \notin labels[t]
         /\ GMAIL_LABEL_APPLIED_AFTER_PROCESSING \in labels[t]
         /\ getMessages(t) \subseteq preloadIds

\* C11: when the sheet write for a message fails during a run, the message's
\* id is not in the processed-id set after the run and the next run takes the
\* message again: at the end of the run (all Gmail calls gone through) the id
\* is in no Email ID cell and the message's thread is under the to-process
\* label, so that the gather of the next run finds the message.
C11_WriteFailureRetried ==
    (lastApply.applied /\ lastApply.caller = "finish" /\ lastApply.faultless) =>
        \A m \in lastApply.flagged :
            /\ m \notin preloadIds
            /\ m \in {gatherNew(preloadIds)[i] : i \in 1..Len(gatherNew(preloadIds))}

\* C29: a merge never regresses a resolved field: when a step updates an
\* existing row whose company (or title) was resolved, the company (or title)
\* of the row is not the manual-review sentinel after the step.
C29_ResolvedFieldsStayResolved ==
    [][\A n \in 1..Len(sheet) :
          n <= Len(sheet') =>
              /\ sheet[n].company \notin {"", MANUAL_REVIEW_NEEDED}
                     => sheet'[n].company \notin {"", MANUAL_REVIEW_NEEDED}
              /\ sheet[n].title \notin {"", MANUAL_REVIEW_NEEDED}
                     => sheet'[n].title \notin {"", MANUAL_REVIEW_NEEDED}]_vars

\* C29 witness: message 1 made the row, with company and title resolved; the
\* run has merged message 2 of thread 2 into it and has marked thread 2 for
\* manual review, so no title was extracted from message 2; the row still
\* has the title of message 1.
C29_MergedWithoutTitle ==
    /\ arrived = <<1, 2>>
    /\ hist = {1, 2}
    /\ run.pc = "loop"
    /\ run.failed = {}
    /\ run.threadOutcomes[2] = "manual"
    /\ Len(sheet) = 1
    /\ sheet[1].emailId = 2
    /\ sheet[1].company \notin {"", MANUAL_REVIEW_NEEDED}
    /\ sheet[1].title \notin {"", MANUAL_REVIEW_NEEDED}

-----------------------------------------------------------------------------
(* Status ranks (the configuration file of Main.js is not in the sources) *)

OFFER_STATUS == ACCEPTED_STATUS
UPDATE_OTHER_STATUS == "Update/Other"

\* STATUS_HIERARCHY[status] ?? 0
STATUS_HIERARCHY(status) ==
    CASE status = REJECTED_STATUS -> -2
      [] status = MANUAL_REVIEW_NEEDED -> -1
      [] status = UPDATE_OTHER_STATUS -> 0
      [] status = DEFAULT_STATUS -> 1
      [] status = ASSESSMENT_STATUS -> 3
      [] status = INTERVIEW_STATUS -> 4
      [] status = OFFER_STATUS -> 5
      [] OTHER -> 0

-----------------------------------------------------------------------------
(* _trackerDataHandler (Main.js) *)

\* what callGemini_forApplicationDetails returns: null, an error object, or
\* the three fields
GeminiNull == [kind |-> "null"]
GeminiError == [kind |-> "error"]
GeminiStatuses ==
    {DEFAULT_STATUS, INTERVIEW_STATUS, REJECTED_STATUS, UPDATE_OTHER_STATUS}
GeminiFields ==
    {[company |-> MANUAL_REVIEW_NEEDED, title |-> "Engineer"],
     [company |-> "Acme Corp", title |-> "Engineer"],
     [company |-> "ACME CORP", title |-> "ENGINEER"]}
GeminiResults ==
    {GeminiNull, GeminiError}
    \cup {[kind |-> "ok", company |-> f.company, title |-> f.title, status |-> st] :
             f \in GeminiFields, st \in GeminiStatuses}

NoDate == 0

\* the row _writeErrorToSheet appends: none of the tracked columns is filled
errorRow == Row("", "", "", "", NoDate, NoId)

\* lines 310-335: company, title and status from the AI result, or from the
\* regular expressions and the keywords when the AI call failed
resolveFields(geminiResult, regexResult, keywordStatus) ==
    IF geminiResult.kind = "ok"
    THEN LET st == IF geminiResult.status # "" /\ geminiResult.status # "undefined"
                   THEN geminiResult.status ELSE UPDATE_OTHER_STATUS
         IN  [company |-> IF geminiResult.company # "" THEN geminiResult.company
                          ELSE MANUAL_REVIEW_NEEDED,
              title |-> IF geminiResult.title # "" THEN geminiResult.title
                        ELSE MANUAL_REVIEW_NEEDED,
              status |-> IF (st = UPDATE_OTHER_STATUS \/ st = MANUAL_REVIEW_NEEDED)
                            /\ keywordStatus # Null
                         THEN keywordStatus ELSE st,
              aiFailed |-> FALSE]
    ELSE [company |-> regexResult.company, title |-> regexResult.title,
          status |-> keywordStatus, aiFailed |-> TRUE]

\* e.title && e.title.toLowerCase() === jobTitle.toLowerCase()
titleMatches(e, jobTitle) ==
    /\ "title" \in DOMAIN e
    /\ e.title # ""
    /\ toLowerCase(e.title) = toLowerCase(jobTitle)

\* lines 342-353: the position in potentialMatches of the entry to update, 0
\* when a row is to be appended
matchIndex(potentialMatches, jobTitle) ==
    LET byTitle == IF jobTitle # MANUAL_REVIEW_NEEDED
                   THEN {i \in 1..Len(potentialMatches) :
                            titleMatches(potentialMatches[i], jobTitle)}
                   ELSE {}
        withRow == {i \in 1..Len(potentialMatches) : potentialMatches[i].row > -1}
    IN  IF byTitle # {}
        THEN LET i == CHOOSE j \in byTitle : \A k \in byTitle : j <= k
             IN  IF potentialMatches[i].row # -1 THEN i ELSE 0
        ELSE IF withRow # {}
        THEN CHOOSE j \in withRow :
                 \A k \in withRow : potentialMatches[j].row >= potentialMatches[k].row
        ELSE 0

\* the status test with the override of Rejected and Offer left out
rankOnlyApplies(statInSheet, finalStatusToSet) ==
    STATUS_HIERARCHY(finalStatusToSet) >= STATUS_HIERARCHY(statInSheet)

\* line 366: is the detected status written to the row?
statusApplies(statInSheet, finalStatusToSet) ==
    \/ STATUS_HIERARCHY(finalStatusToSet) >= STATUS_HIERARCHY(statInSheet)
    \/ finalStatusToSet = REJECTED_STATUS
    \/ finalStatusToSet = OFFER_STATUS

\* the merge that leaves the columns of the message alone when the status of
\* the row does not change
mergedRowKeepingAdmin(existing, finalStatusToSet, m) ==
    LET rowData == existing.rowData
        statInSheet == IF rowData.status # "" THEN rowData.status ELSE DEFAULT_STATUS
        statAfterUpd == IF statusApplies(statInSheet, finalStatusToSet)
                        THEN finalStatusToSet ELSE rowData.status
        peakStat == IF existing.peakStatus # "" THEN existing.peakStatus ELSE statInSheet
    IN  [rowData EXCEPT
            !.lastUpdate = IF statAfterUpd # rowData.status THEN dateOf(m) ELSE @,
            !.emailId = IF statAfterUpd # rowData.status THEN m ELSE @,
            !.status = statAfterUpd,
            !.peak = IF STATUS_HIERARCHY(statAfterUpd) > STATUS_HIERARCHY(peakStat)
                     THEN statAfterUpd ELSE rowData.peak]

\* lines 355-376: the values written to the row of entry existing
mergedRow(existing, finalStatusToSet, m) ==
    LET rowData == existing.rowData
        statInSheet == IF rowData.status # "" THEN rowData.status ELSE DEFAULT_STATUS
        statAfterUpd == IF statusApplies(statInSheet, finalStatusToSet)
                        THEN finalStatusToSet ELSE rowData.status
        peakStat == IF existing.peakStatus # "" THEN existing.peakStatus ELSE statInSheet
    IN  [rowData EXCEPT
            !.lastUpdate = dateOf(m),
            !.emailId = m,
            !.status = statAfterUpd,
            !.peak = IF STATUS_HIERARCHY(statAfterUpd) > STATUS_HIERARCHY(peakStat)
                     THEN statAfterUpd ELSE rowData.peak]

\* _trackerDataHandler(geminiResult, message, companyIndex, dataSheet), with
\* what extractCompanyAndTitle and parseBodyForStatus return on the message
_trackerDataHandler(geminiResult, m, regexResult, keywordStatus, companyIndex) ==
    LET f == resolveFields(geminiResult, regexResult, keywordStatus)
        requiresManualReview ==
            f.company = MANUAL_REVIEW_NEEDED \/ f.title = MANUAL_REVIEW_NEEDED
        finalStatusToSet == IF f.status # Null /\ f.status # "" THEN f.status
                            ELSE DEFAULT_STATUS
        potentialMatches == IF f.company # MANUAL_REVIEW_NEEDED
                            THEN companyIndex[toLowerCase(f.company)] ELSE <<>>
        i == matchIndex(potentialMatches, f.title)
    IN  IF i # 0
        THEN LET values == mergedRow(potentialMatches[i], finalStatusToSet, m)
             IN  [kind |-> "update",
                  updateInfo |-> [row |-> potentialMatches[i].row, values |-> values,
                                  newStatus |-> values.status,
                                  newPeakStatus |-> values.peak,
                                  company |-> values.company],
                  requiresManualReview |-> requiresManualReview,
                  detected |-> f, wroteError |-> f.aiFailed]
        ELSE [kind |-> "new",
              newRowData |-> Row(f.company, f.title, finalStatusToSet, finalStatusToSet,
                                 dateOf(m), m),
              requiresManualReview |-> requiresManualReview,
              detected |-> f, wroteError |-> f.aiFailed]

-----------------------------------------------------------------------------
(* _processingEngine (Main.js) *)

\* lines 191-209: company key -> the entries of its rows, in sheet order
buildCompanyIndex ==
    [k \in CompanyKeys |->
        LET ns == SetToSeq({n \in 1..Len(sheet) :
                               sheet[n].company # "" /\ toLowerCase(sheet[n].company) = k})
        IN  [i \in 1..Len(ns) |->
                [row |-> rowNum(ns[i]), rowData |-> sheet[ns[i]],
                 title |-> sheet[ns[i]].title, status |-> sheet[ns[i]].status,
                 peakStatus |-> sheet[ns[i]].peak]]]

\* lines 238-245: the entry of the updated row takes the new status and peak
indexAfterUpdate(companyIndex, updateInfo) ==
    LET companyKey == toLowerCase(updateInfo.company)
    IN  IF companyKey \in DOMAIN companyIndex
        THEN [companyIndex EXCEPT ![companyKey] =
                 [i \in 1..Len(@) |->
                     IF @[i].row = updateInfo.row
                     THEN [@[i] EXCEPT !.status = updateInfo.newStatus,
                                       !.peakStatus = updateInfo.newPeakStatus]
                     ELSE @[i]]]
        ELSE companyIndex

\* the index left as it is when a row is queued for appending
indexAfterAppendNoEntry(companyIndex, newRowData, msgId) == companyIndex

\* lines 246-253: the company of a pending new row gets an entry without a row
indexAfterAppend(companyIndex, newRowData, msgId) ==
    LET companyKey == toLowerCase(newRowData.company)
    IN  IF companyKey # ""
        THEN [companyIndex EXCEPT ![companyKey] =
                 Append(@, [row |-> -1, emailId |-> msgId])]
        ELSE companyIndex

\* the checks without those of the labels
engineConfigOkNoLabels == missing \cap {"geminiApiKey", "dataSheet"} = {}

\* lines 170-189: the API key, the tab and the three labels are there
engineConfigOk == missing \cap ConfigItems = {}

\* lines 170-189: the run returns on a failed check.
EngineConfigAborts ==
    /\ run = Idle
    /\ ~engineConfigOk
    /\ lastApply' = ConfigAbort
    /\ UNCHANGED <<labels, arrived, sheet, now, run, hist, missing, overlapped>>

\* The run starts: the index is built from the sheet, the messages of the
\* to-process threads are sorted by date.
EngineStart ==
    /\ run = Idle
    /\ engineConfigOk
    /\ getThreads(GMAIL_LABEL_TO_PROCESS) # {}
    /\ run' = [pc |-> "messages",
               companyIndex |-> buildCompanyIndex,
               messagesToSort |->
                   SortByDate(FlatMessages(NewestFirst(getThreads(GMAIL_LABEL_TO_PROCESS)))),
               dataToUpdate |-> <<>>,
               newRowsData |-> <<>>,
               threadProcessingOutcomes |-> NoOutcomes,
               flagged |-> {},
               unattempted |-> {}]
    /\ lastApply' = NoApply
    /\ UNCHANGED <<labels, arrived, sheet, now, hist, missing, overlapped>>

\* One pass of the message loop (lines 224-257).
EngineMessage(geminiResult, regexResult, keywordStatus) ==
    /\ run.pc = "messages"
    /\ run.messagesToSort # <<>>
    /\ LET m == Head(run.messagesToSort)
           h == _trackerDataHandler(geminiResult, m, regexResult, keywordStatus,
                                    run.companyIndex)
           after == [run EXCEPT
                        !.messagesToSort = Tail(@),
                        !.threadProcessingOutcomes[threadOf(m)] =
                            IF h.requiresManualReview THEN "manual" ELSE "done",
                        !.flagged = IF h.detected.company = MANUAL_REVIEW_NEEDED
                                    THEN @ \cup {m} ELSE @]
       IN  /\ sheet' = IF h.wroteError THEN Append(sheet, errorRow) ELSE sheet
           /\ run' = IF h.kind = "update"
                     THEN [after EXCEPT
                              !.dataToUpdate = Append(@, h.updateInfo),
                              !.companyIndex = indexAfterUpdate(@, h.updateInfo)]
                     ELSE [after EXCEPT
                              !.newRowsData = Append(@, h.newRowData),
                              !.companyIndex = indexAfterAppend(@, h.newRowData, m)]
           /\ Len(sheet') + Len(run'.newRowsData) <= MaxRows
    /\ lastApply' = NoApply
    /\ UNCHANGED <<labels, arrived, now, hist, missing, overlapped>>

\* the AI call succeeds; the keywords are read when it finds no status
EngineMessageAI ==
    \E geminiResult \in GeminiResults \ {GeminiNull, GeminiError},
       keywordStatus \in BodyStatuses :
        /\ geminiResult.status # UPDATE_OTHER_STATUS => keywordStatus = Null
        /\ EngineMessage(geminiResult, CHOOSE r \in RegexResults : TRUE, keywordStatus)

\* the AI call fails; the regular expressions and the keywords are used
EngineMessageFallback ==
    \E geminiResult \in {GeminiNull, GeminiError},
       regexResult \in RegexResults, keywordStatus \in BodyStatuses :
        EngineMessage(geminiResult, regexResult, keywordStatus)

\* lines 225-228: the time budget is used up, the loop is left
EngineBudgetBreak ==
    /\ run.pc = "messages"
    /\ run.messagesToSort # <<>>
    /\ run' = [run EXCEPT
                   !.messagesToSort = <<>>,
                   !.unattempted = {run.messagesToSort[i] : i \in 1..Len(run.messagesToSort)}]
    /\ lastApply' = NoApply
    /\ UNCHANGED <<labels, arrived, sheet, now, hist, missing, overlapped>>

\* line 259: one setValues call of dataToUpdate.forEach
EngineWriteUpdate ==
    /\ run.pc = "messages"
    /\ run.messagesToSort = <<>>
    /\ run.dataToUpdate # <<>>
    /\ LET update == Head(run.dataToUpdate)
       IN  sheet' = [sheet EXCEPT ![rowIdx(update.row)] = update.values]
    /\ run' = [run EXCEPT !.dataToUpdate = Tail(@)]
    /\ lastApply' = NoApply
    /\ UNCHANGED <<labels, arrived, now, hist, missing, overlapped>>

\* lines 260-270: the new rows are written below the last row, then the
\* final labels
EngineFinish ==
    /\ run.pc = "messages"
    /\ run.messagesToSort = <<>>
    /\ run.dataToUpdate = <<>>
    /\ sheet' = sheet \o run.newRowsData
    /\ \E faults \in GmailFaults :
         /\ applyFinalLabels(run.threadProcessingOutcomes, faults)
         /\ lastApply' = runApplyRecord("finish", faults, run.flagged)
    /\ run' = Idle
    /\ UNCHANGED <<arrived, now, hist, missing, overlapped>>

\* A service call of the run throws: nothing catches it, the run ends there.
EngineAborts ==
    /\ run.pc = "messages"
    /\ run' = Idle
    /\ lastApply' = NoApply
    /\ UNCHANGED <<labels, arrived, sheet, now, hist, missing, overlapped>>

\* a row the user has typed in by hand
userRow == Row("Acme Corp", "Engineer", DEFAULT_STATUS, DEFAULT_STATUS, NoDate, NoId)

EngineInit ==
    /\ labels = [t \in Threads |-> {}]
    /\ lastApply = NoApply
    /\ arrived = <<>>
    /\ sheet \in {<<>>, <<userRow>>}
    /\ now = 0
    /\ run = Idle
    /\ hist = {}
    /\ missing \in SUBSET ConfigItems
    /\ overlapped = Idle

\* Between two runs the mailbox changes.
EngineMailbox ==
    /\ run = Idle
    /\ (Arrive \/ UserRelabels)

EngineNext ==
    \/ EngineMailbox
    \/ EngineConfigAborts
    \/ EngineStart
    \/ EngineMessageAI
    \/ EngineMessageFallback
    \/ EngineBudgetBreak
    \/ EngineWriteUpdate
    \/ EngineFinish
    \/ EngineAborts

SpecEngine == EngineInit /\ [][EngineNext]_vars

-----------------------------------------------------------------------------
(* Properties of _processingEngine *)

\* C3: no write to the sheet lowers the rank of the peak status stored for a row.
C3_PeakNeverDecreases ==
    [][\A n \in 1..Len(sheet) :
          n <= Len(sheet') =>
              STATUS_HIERARCHY(sheet'[n].peak) >= STATUS_HIERARCHY(sheet[n].peak)]_vars

\* C4: after a completed run every row has rank(peak status) >= rank(status).
C4_PeakAtLeastStatus ==
    (lastApply.applied /\ lastApply.caller = "finish") =>
        \A n \in 1..Len(sheet) :
            STATUS_HIERARCHY(sheet[n].peak) >= STATUS_HIERARCHY(sheet[n].status)

\* C6: no two rows hold the same resolved company (compared in lower case)
\* and the same resolved title (compared in lower case).
C6_OneRowPerApplication ==
    \A i, j \in 1..Len(sheet) :
        (/\ i < j
         /\ sheet[i].company \notin {"", MANUAL_REVIEW_NEEDED}
         /\ sheet[i].title \notin {"", MANUAL_REVIEW_NEEDED}
         /\ toLowerCase(sheet[i].company) = toLowerCase(sheet[j].company))
        => toLowerCase(sheet[i].title) # toLowerCase(sheet[j].title)

\* C7: at the end of a run whose Gmail calls all went through, every message
\* whose company was not resolved has its row under the sentinel company and
\* its thread under the manual-review label.
C7_CompanyFailureEndsInManualReview ==
    (lastApply.applied /\ lastApply.caller = "finish" /\ lastApply.faultless) =>
        \A m \in lastApply.flagged :
            /\ \A n \in 1..Len(sheet) :
                   sheet[n].emailId = m => sheet[n].company = MANUAL_REVIEW_NEEDED
            /\ GMAIL_LABEL_MANUAL_REVIEW \in labels[threadOf(m)]

C17_RunsWithoutApiKey ==
    [][(/\ missing = {"geminiApiKey"}
        /\ run = Idle
        /\ getThreads(GMAIL_LABEL_TO_PROCESS) # {}
        /\ ~(Arrive \/ UserRelabels))
          => run'.pc = "messages"]_vars

\* C14: within a run the messages are merged in ascending order of their
\* dates, across the fetched threads: the message a pass of the loop takes is
\* not later than any message the run still has to take.
C14_AscendingOrder ==
    [][(/\ run.pc = "messages"
        /\ run.messagesToSort # <<>>
        /\ run'.pc = "messages"
        /\ run'.messagesToSort = Tail(run.messagesToSort))
          => \A i \in 1..Len(run'.messagesToSort) :
                 dateOf(Head(run.messagesToSort)) <= dateOf(run'.messagesToSort[i])]_vars

\* C14 witness: Gmail listed thread 2 (the newer one) before thread 1, and
\* the run has merged message 1 of thread 1 and still holds message 2.
C14_OlderThreadMergedFirst ==
    /\ run.pc = "messages"
    /\ arrived = <<1, 2>>
    /\ NewestFirst(getThreads(GMAIL_LABEL_TO_PROCESS)) = <<2, 1>>
    /\ run.messagesToSort = <<2>>
    /\ Len(run.newRowsData) + Len(run.dataToUpdate) = 1

\* C15: when the run stops pulling messages on the time budget, the messages
\* it did not attempt stay eligible for the next run: the final labelling of
\* the run takes the to-process label from no thread that holds an
\* unattempted message and adds no terminal label to it.
C15_UnattemptedStayEligible ==
    [][(run.pc = "messages" /\ lastApply'.applied) =>
          \A m \in run.unattempted : labels'[threadOf(m)] = labels[threadOf(m)]]_vars

\* C21: within a run, once a message of a thread has required manual review,
\* the recorded outcome of the thread is manual and stays manual for the rest
\* of the run, whatever the later messages of the thread give.
C21_ManualOutcomeSticks ==
    [][(run.pc = "messages" /\ run'.pc = "messages") =>
          \A t \in Threads :
              run.threadProcessingOutcomes[t] = "manual"
                  => run'.threadProcessingOutcomes[t] = "manual"]_vars

\* C22: the status of a row changes only to a status whose rank is at least
\* the rank of the status the row holds at that moment, or to Rejected or
\* Offer; this also holds for a row an earlier message of the same run has
\* advanced.
C22_StatusChangesOnlyUpward ==
    [][\A n \in 1..Len(sheet) :
          (n <= Len(sheet') /\ sheet'[n].status # sheet[n].status) =>
              \/ STATUS_HIERARCHY(sheet'[n].status) >= STATUS_HIERARCHY(sheet[n].status)
              \/ sheet'[n].status \in {REJECTED_STATUS, OFFER_STATUS}]_vars

\* C39: the last-update date of a row never moves backwards: every write to
\* a row stores a last-update date that is not earlier than the one it
\* replaces.
C39_LastUpdateNeverMovesBack ==
    [][\A n \in 1..Len(sheet) :
          n <= Len(sheet') => sheet'[n].lastUpdate >= sheet[n].lastUpdate]_vars

C12_RunEndsWithLabels ==
    [][(run # Idle /\ run' = Idle) => lastApply'.applied]_vars

-----------------------------------------------------------------------------
(* Two overlapping runs of _processingEngine. The script takes no lock, and  *)
(* a trigger can fire (or the user can start a run from the menu) while a    *)
(* run is in progress: the second run starts on the sheet and the labels as  *)
(* they are then, and the first run goes on with the snapshot it took.       *)

\* what the AI returns on the messages of the overlapping runs
OverlapResults ==
    {[kind |-> "ok", company |-> "Acme Corp", title |-> "Engineer", status |-> st] :
        st \in {DEFAULT_STATUS, INTERVIEW_STATUS}}

\* One pass of the message loop of the run in hand.
OverlapMessage ==
    \E geminiResult \in OverlapResults :
        EngineMessage(geminiResult, CHOOSE r \in RegexResults : TRUE, Null)

\* The run in progress is overtaken: it waits with its locals (index,
\* queued writes, outcomes) while another run can start.
SecondRunOverlaps ==
    /\ run.pc = "messages"
    /\ overlapped = Idle
    /\ overlapped' = [pc |-> "waiting", locals |-> run, sheet |-> sheet]
    /\ run' = Idle
    /\ lastApply' = NoApply
    /\ UNCHANGED <<labels, arrived, sheet, now, hist, missing>>

\* The overtaken run goes on where it was; written is the set of the rows the
\* other run has written in the meantime.
FirstRunResumes ==
    /\ run = Idle
    /\ overlapped.pc = "waiting"
    /\ run' = overlapped.locals
    /\ overlapped' =
           [pc |-> "resumed",
            written |-> {n \in 1..Len(sheet) :
                            n > Len(overlapped.sheet) \/ sheet[n] # overlapped.sheet[n]}]
    /\ lastApply' = NoApply
    /\ UNCHANGED <<labels, arrived, sheet, now, hist, missing>>

\* a run starts (the first one, or the one that overtakes it)
OverlapStart ==
    /\ overlapped.pc # "resumed"
    /\ EngineStart

\* mail arrives while no run is in progress
OverlapMailbox ==
    /\ overlapped = Idle
    /\ EngineMailbox

OverlapInit ==
    /\ labels = [t \in Threads |-> {}]
    /\ lastApply = NoApply
    /\ arrived = <<>>
    /\ sheet \in {<<>>, <<userRow>>}
    /\ now = 0
    /\ run = Idle
    /\ hist = {}
    /\ missing = {}
    /\ overlapped = Idle

OverlapNext ==
    \/ OverlapMailbox
    \/ OverlapStart
    \/ OverlapMessage
    \/ EngineWriteUpdate
    \/ EngineFinish
    \/ SecondRunOverlaps
    \/ FirstRunResumes

SpecOverlap == OverlapInit /\ [][OverlapNext]_vars

\* C16: when a second run has started before the writes of the first run were
\* visible, the result is still right: the first run appends no row for a
\* message the second run has written a row for, and its batched write
\* overwrites no row the second run has written.
C16_OverlapIsHarmless ==
    [][(overlapped.pc = "resumed" /\ run.pc = "messages") =>
          /\ (run' = Idle) =>
                 \A k \in 1..Len(run.newRowsData) :
                     run.newRowsData[k].emailId
                         \notin {sheet[n].emailId : n \in overlapped.written}
          /\ (run.dataToUpdate # <<>> /\ sheet' # sheet) =>
                 rowIdx(Head(run.dataToUpdate).row) \notin overlapped.written]_vars

-----------------------------------------------------------------------------
(* Specification of _trackerDataHandler alone: any existing row, any message *)

\* the statuses a stored row can hold
RowStatuses ==
    {DEFAULT_STATUS, ASSESSMENT_STATUS, INTERVIEW_STATUS, OFFER_STATUS, REJECTED_STATUS,
     UPDATE_OTHER_STATUS}

\* the status the prompt asks for on a message that is no application update
NOT_AN_APPLICATION == "Not an Application"

\* the closed set of statuses of the specification
StatusEnum ==
    {DEFAULT_STATUS, "Application Viewed", ASSESSMENT_STATUS, INTERVIEW_STATUS,
     OFFER_STATUS, REJECTED_STATUS, UPDATE_OTHER_STATUS, MANUAL_REVIEW_NEEDED}

\* the index of a sheet whose only row is the Acme Corp row rowData; the row's
\* entry carries peakStatus (the peak of the row, or a peak an earlier merge
\* of the run has put there)
indexOfRow(rowData, peakStatus) ==
    [k \in CompanyKeys |->
        IF k = toLowerCase(rowData.company)
        THEN <<[row |-> rowNum(1), rowData |-> rowData, title |-> rowData.title,
                status |-> rowData.status, peakStatus |-> peakStatus]>>
        ELSE <<>>]

\* the handler is called for message 1 on the index of a one-row sheet
CallTrackerDataHandler ==
    \E st \in RowStatuses, pk \in RowStatuses \cup {""}, entryPeak \in RowStatuses \cup {""},
       f \in GeminiFields \cup {[company |-> MANUAL_REVIEW_NEEDED,
                                 title |-> MANUAL_REVIEW_NEEDED],
                                [company |-> "Acme Corp", title |-> "Designer"]},
       detected \in RowStatuses \cup {MANUAL_REVIEW_NEEDED, NOT_AN_APPLICATION},
       keywordStatus \in BodyStatuses :
        LET rowData == Row("Acme Corp", "Engineer", st, pk, NoDate, NoId)
            geminiResult == [kind |-> "ok", company |-> f.company, title |-> f.title,
                             status |-> detected]
        IN  /\ run = Idle
            /\ detected \notin {UPDATE_OTHER_STATUS, MANUAL_REVIEW_NEEDED}
                   => keywordStatus = Null
            /\ run' = [pc |-> "merged",
                       existing |-> rowData,
                       result |-> _trackerDataHandler(geminiResult, 1,
                                      CHOOSE r \in RegexResults : TRUE, keywordStatus,
                                      indexOfRow(rowData, entryPeak))]
            /\ UNCHANGED <<labels, lastApply, arrived, sheet, now, hist, missing, overlapped>>

\* the handler is called for message 1 after a failed AI call (lines 322-335)
CallTrackerDataHandlerFallback ==
    \E st \in RowStatuses, geminiResult \in {GeminiNull, GeminiError},
       regexResult \in RegexResults, keywordStatus \in BodyStatuses :
        LET rowData == Row("Acme Corp", "Engineer", st, st, NoDate, NoId)
        IN  /\ run = Idle
            /\ run' = [pc |-> "merged",
                       existing |-> rowData,
                       result |-> _trackerDataHandler(geminiResult, 1, regexResult,
                                      keywordStatus, indexOfRow(rowData, st))]
            /\ sheet' = Append(sheet, errorRow)
            /\ UNCHANGED <<labels, lastApply, arrived, now, hist, missing, overlapped>>

MergeInit ==
    /\ labels = [t \in Threads |-> {}]
    /\ lastApply = NoApply
    /\ arrived = <<1>>
    /\ sheet = <<>>
    /\ now = 0
    /\ run = Idle
    /\ hist = {}
    /\ missing = {}
    /\ overlapped = Idle

MergeNext == CallTrackerDataHandler \/ CallTrackerDataHandlerFallback

SpecMerge == MergeInit /\ [][MergeNext]_vars

\* C5: a merge of a message whose detected status is Rejected or Offer into an
\* existing row writes that status to the row, whatever the row's status.
C5_OverrideStatusApplied ==
    (/\ run.pc = "merged"
     /\ run.result.kind = "update"
     /\ run.result.detected.status \in {REJECTED_STATUS, OFFER_STATUS})
    => /\ run.result.updateInfo.values.status = run.result.detected.status
       /\ run.result.updateInfo.newStatus = run.result.detected.status

\* C5 witness: a row at Interview has received Rejected, a status of lower
\* rank, and is Rejected.
C5_InterviewRowRejected ==
    /\ run.pc = "merged"
    /\ run.result.kind = "update"
    /\ run.existing.status = INTERVIEW_STATUS
    /\ run.result.detected.status = REJECTED_STATUS
    /\ STATUS_HIERARCHY(REJECTED_STATUS) < STATUS_HIERARCHY(INTERVIEW_STATUS)
    /\ run.result.updateInfo.values.status = REJECTED_STATUS

\* C23: when no status is detected for a message (the keyword scan gives
\* null) and the message is merged into an existing row, the status of the row
\* is left as it was.
C23_NoStatusKeepsRowStatus ==
    (/\ run.pc = "merged"
     /\ run.result.kind = "update"
     /\ run.result.detected.status = Null)
    => run.result.updateInfo.values.status = run.existing.status

\* C24: the status the handler writes to a row, updated or new, is a member
\* of the closed status set; a status of the AI result that is outside the set
\* is not stored as it is.
C24_StoredStatusInEnum ==
    run.pc = "merged" =>
        /\ run.result.kind = "update" => run.result.updateInfo.values.status \in StatusEnum
        /\ run.result.kind = "new" => run.result.newRowData.status \in StatusEnum

-----------------------------------------------------------------------------
(* callGemini_forApplicationDetails (part_000), followed by the handler *)

maxAttempts == 2

\* what one UrlFetchApp.fetch gives: an exception, a status code other than
\* 200, or a 200 whose body is not JSON ("badEnvelope"), has no candidate text
\* ("noCandidates"), or carries a text that is not JSON ("badJson"), lacks one
\* of the three keys ("missingKeys") or holds the three keys
GeminiResponses ==
    {[kind |-> k] : k \in {"throws", "http429", "httpError", "badEnvelope",
                           "noCandidates", "badJson", "missingKeys"}}
    \cup {[kind |-> "json", company_name |-> c, job_title |-> t, status |-> s] :
             c \in {"", "Acme Corp"}, t \in {"", "Engineer"},
             s \in {"", DEFAULT_STATUS, NOT_AN_APPLICATION}}

\* value || MANUAL_REVIEW_NEEDED
orSentinel(value) == IF value # "" THEN value ELSE MANUAL_REVIEW_NEEDED

\* lines 122-127: the object returned when the text is no JSON or lacks a key
sentinelResult ==
    [kind |-> "ok", company |-> MANUAL_REVIEW_NEEDED, title |-> MANUAL_REVIEW_NEEDED,
     status |-> MANUAL_REVIEW_NEEDED]

\* the pass of the loop with every failed request tried again
attemptOutcomeRetryAll(response, attempt) ==
    IF response.kind = "json"
    THEN [retry |-> FALSE,
          value |-> [kind |-> "ok", company |-> orSentinel(response.company_name),
                     title |-> orSentinel(response.job_title),
                     status |-> orSentinel(response.status)]]
    ELSE [retry |-> TRUE]

\* lines 83-138: one pass of the while loop, attempt already incremented:
\* the loop goes round again, or the function returns value
attemptOutcome(response, attempt) ==
    CASE response.kind = "json" ->
             [retry |-> FALSE,
              value |-> [kind |-> "ok", company |-> orSentinel(response.company_name),
                         title |-> orSentinel(response.job_title),
                         status |-> orSentinel(response.status)]]
      [] response.kind \in {"badJson", "missingKeys"} ->
             [retry |-> FALSE, value |-> sentinelResult]
      [] response.kind \in {"noCandidates", "httpError"} ->
             [retry |-> FALSE, value |-> GeminiNull]
      [] response.kind = "http429" ->
             IF attempt < maxAttempts THEN [retry |-> TRUE]
             ELSE [retry |-> FALSE, value |-> GeminiNull]
      [] response.kind \in {"throws", "badEnvelope"} ->
             IF attempt < maxAttempts THEN [retry |-> TRUE]
             ELSE [retry |-> FALSE, value |-> GeminiError]

\* lines 13-21 and 81: the call returns null without a request when the key is
\* missing or subject and body are both empty, else it enters the loop
CallGemini ==
    /\ run = Idle
    /\ \E apiKey \in BOOLEAN, emptyMessage \in BOOLEAN :
         run' = IF ~apiKey \/ emptyMessage
                THEN [pc |-> "returned", responses |-> <<>>, value |-> GeminiNull]
                ELSE [pc |-> "gemini", responses |-> <<>>]
    /\ UNCHANGED <<labels, lastApply, arrived, sheet, now, hist, missing, overlapped>>

\* lines 83-138: one pass of the loop
GeminiAttempt ==
    /\ run.pc = "gemini"
    /\ Len(run.responses) < maxAttempts
    /\ \E response \in GeminiResponses :
         LET responses == Append(run.responses, response.kind)
             o == attemptOutcome(response, Len(responses))
         IN  run' = IF o.retry
                    THEN [pc |-> "gemini", responses |-> responses]
                    ELSE [pc |-> "returned", responses |-> responses, value |-> o.value]
    /\ UNCHANGED <<labels, lastApply, arrived, sheet, now, hist, missing, overlapped>>

\* Main.js 235: the handler receives what the call returned
GeminiHandled ==
    /\ run.pc = "returned"
    /\ \E regexResult \in RegexResults, keywordStatus \in BodyStatuses :
         LET h == _trackerDataHandler(run.value, 1, regexResult, keywordStatus,
                                      indexOfRow(userRow, DEFAULT_STATUS))
         IN  /\ run' = [pc |-> "handled", responses |-> run.responses,
                        value |-> run.value, regexResult |-> regexResult, result |-> h]
             /\ sheet' = IF h.wroteError THEN Append(sheet, errorRow) ELSE sheet
    /\ UNCHANGED <<labels, lastApply, arrived, now, hist, missing, overlapped>>

GeminiInit ==
    /\ labels = [t \in Threads |-> {}]
    /\ lastApply = NoApply
    /\ arrived = <<1>>
    /\ sheet = <<userRow>>
    /\ now = 0
    /\ run = Idle
    /\ hist = {}
    /\ missing = {}
    /\ overlapped = Idle

GeminiNext == CallGemini \/ GeminiAttempt \/ GeminiHandled

SpecGemini == GeminiInit /\ [][GeminiNext]_vars

\* C25: whenever the AI call fails (no response, rate limit past the retries,
\* a text that is not JSON or lacks a required key) the handler treats it as
\* no result: company and title are those extractCompanyAndTitle gives.
C25_AiFailureFallsBack ==
    (/\ run.pc = "handled"
     /\ run.responses # <<>>
     /\ run.responses[Len(run.responses)] # "json")
    => /\ run.result.detected.company = run.regexResult.company
       /\ run.result.detected.title = run.regexResult.title

\* C27: a call of callGemini_forApplicationDetails makes at most two
\* requests, makes a second one only after a first that ended in HTTP 429 or
\* in an exception raised inside the attempt (the request raised, or the body
\* of a 200 response was not JSON), and ends by returning a record, null or
\* an error object.
C27_BoundedRetries ==
    run.pc \in {"gemini", "returned", "handled"} =>
        /\ Len(run.responses) <= 2
        /\ \A i \in 1..(Len(run.responses) - 1) :
               run.responses[i] \in {"http429", "throws", "badEnvelope"}
        /\ (run.pc = "gemini" => Len(run.responses) < 2)
        /\ (run.pc = "returned" =>
               \/ run.value \in {GeminiNull, GeminiError}
               \/ run.value.kind = "ok")

\* C27 as stated: the second request follows only HTTP 429 or an exception of
\* the request itself.
C27_RetryOnlyOn429OrTransport ==
    run.pc \in {"gemini", "returned", "handled"} =>
        /\ Len(run.responses) <= 2
        /\ \A i \in 1..(Len(run.responses) - 1) :
               run.responses[i] \in {"http429", "throws"}

\* C27 witness: the call was rate-limited twice and has returned null after
\* its second request.
C27_RateLimitedTwice ==
    /\ run.pc = "returned"
    /\ run.responses = <<"http429", "http429">>
    /\ run.value = GeminiNull

\* C26: the handler leaves company or title at the sentinel only if every
\* extractor failed on that field: when the AI result leaves a field
\* unresolved, the field is the sentinel only if extractCompanyAndTitle gives
\* the sentinel for it too.
C26_SentinelOnlyWhenAllFailed ==
    run.pc = "handled" =>
        /\ run.result.detected.company = MANUAL_REVIEW_NEEDED
               => run.regexResult.company = MANUAL_REVIEW_NEEDED
        /\ run.result.detected.title = MANUAL_REVIEW_NEEDED
               => run.regexResult.title = MANUAL_REVIEW_NEEDED

\* C30: every merge into an existing row overwrites the columns of the
\* message with those of the merged message: the last-update date is the date
\* of the message and the message id is its id (the subject and the link are
\* those of that id), whether or not company, title or status change.
C30_AdminFieldsOverwritten ==
    (run.pc = "merged" /\ run.result.kind = "update") =>
        /\ run.result.updateInfo.values.lastUpdate = dateOf(1)
        /\ run.result.updateInfo.values.emailId = 1
        /\ run.result.updateInfo.values.lastUpdate # run.existing.lastUpdate
        /\ run.result.updateInfo.values.emailId # run.existing.emailId

\* C30 witness: message 1 was merged into the row of another message without
\* a change of company, title or status, and the row carries the date and the
\* id of message 1.
C30_MergedWithoutChange ==
    /\ run.pc = "merged"
    /\ run.result.kind = "update"
    /\ run.result.updateInfo.values.company = run.existing.company
    /\ run.result.updateInfo.values.title = run.existing.title
    /\ run.result.updateInfo.values.status = run.existing.status
    /\ run.existing.emailId # 1
    /\ run.result.updateInfo.values.emailId = 1
    /\ run.result.updateInfo.values.lastUpdate = dateOf(1)

\* C38: a message whose resolved title differs, in lower case, from the
\* title of every existing row of its company is recorded as a new row: it
\* changes no row that holds another resolved title.
C38_OtherTitleGivesNewRow ==
    (/\ run.pc = "merged"
     /\ run.result.detected.company # MANUAL_REVIEW_NEEDED
     /\ run.result.detected.title # MANUAL_REVIEW_NEEDED
     /\ toLowerCase(run.result.detected.title) # toLowerCase(run.existing.title))
    => run.result.kind = "new"

-----------------------------------------------------------------------------
(* markStaleApplicationsAsRejected (Main.js) *)

WEEKS_THRESHOLD == 7

\* the statuses the sweep leaves alone (the set is not in the sources of
\* Main.js; these are the final statuses of the version 1 script)
FINAL_STATUSES_FOR_STALE_CHECK ==
    {REJECTED_STATUS, ACCEPTED_STATUS, "Withdrawn", "Hired", "Offer Declined"}

\* the row is stale under a comparison that includes the threshold day
isStaleOrOnThreshold(row, currentDate) ==
    /\ row.status \notin FINAL_STATUSES_FOR_STALE_CHECK
    /\ row.lastUpdate # NoDate
    /\ row.lastUpdate <= currentDate - (WEEKS_THRESHOLD * 7)

\* line 484; new Date(cell) of an empty cell is an invalid date, which is
\* less than no date
isStale(row, currentDate) ==
    /\ row.status \notin FINAL_STATUSES_FOR_STALE_CHECK
    /\ row.lastUpdate # NoDate
    /\ row.lastUpdate < currentDate - (WEEKS_THRESHOLD * 7)

\* the sweep that marks the stale rows for review and leaves their dates
sweptValuesMarkedOnly(sheetValues, currentDate) ==
    [n \in 1..Len(sheetValues) |->
        IF isStale(sheetValues[n], currentDate)
        THEN [sheetValues[n] EXCEPT !.status = MANUAL_REVIEW_NEEDED]
        ELSE sheetValues[n]]

\* the sweep with the peak status of a stale row set to Rejected as well
sweptValuesWithPeak(sheetValues, currentDate) ==
    [n \in 1..Len(sheetValues) |->
        IF isStale(sheetValues[n], currentDate)
        THEN [sheetValues[n] EXCEPT !.status = REJECTED_STATUS, !.peak = REJECTED_STATUS,
                                    !.lastUpdate = currentDate]
        ELSE sheetValues[n]]

\* lines 481-496: the values written back, all rows at once
sweptValues(sheetValues, currentDate) ==
    [n \in 1..Len(sheetValues) |->
        IF isStale(sheetValues[n], currentDate)
        THEN [sheetValues[n] EXCEPT !.status = REJECTED_STATUS, !.lastUpdate = currentDate]
        ELSE sheetValues[n]]

\* markStaleApplicationsAsRejected(ss), run on day currentDate
markStaleApplicationsAsRejected(currentDate) ==
    /\ run = Idle
    /\ currentDate > now
    /\ now' = currentDate
    /\ sheet' = IF \E n \in 1..Len(sheet) : isStale(sheet[n], currentDate)
                THEN sweptValues(sheet, currentDate)
                ELSE sheet
    /\ UNCHANGED <<labels, lastApply, arrived, run, hist, missing, overlapped>>

-----------------------------------------------------------------------------
(* Specification of the sweep alone: any sheet, sweeps on later and later days *)

\* the days the rows were last updated on, and the days the sweep runs on
UpdateDays == {1, 2, 3}
SweepDays == {51, 52, 100}

SweepRows ==
    {Row("Acme Corp", "Engineer", st, st, d, NoId) :
        st \in {DEFAULT_STATUS, INTERVIEW_STATUS, ACCEPTED_STATUS, REJECTED_STATUS},
        d \in UpdateDays \cup {NoDate}}

SweepInit ==
    /\ labels = [t \in Threads |-> {}]
    /\ lastApply = NoApply
    /\ arrived = <<>>
    /\ sheet \in UNION {[1..k -> SweepRows] : k \in 0..MaxRows}
    /\ now = 0
    /\ run = Idle
    /\ hist = {}
    /\ missing = {}
    /\ overlapped = Idle

RunSweep == \E currentDate \in SweepDays : markStaleApplicationsAsRejected(currentDate)

SweepNext == RunSweep

SpecSweep == SweepInit /\ [][SweepNext]_vars

\* C33: a sweep removes no row and adds none, and changes no field other than
\* status and last-update date: the peak status and every other field of
\* every row are as before, and a row that is protected or not stale is as
\* before in every field.
C33_SweepChangesStatusAndDateOnly ==
    [][/\ Len(sheet') = Len(sheet)
       /\ \A n \in 1..Len(sheet) :
            /\ [sheet'[n] EXCEPT !.status = sheet[n].status,
                                 !.lastUpdate = sheet[n].lastUpdate] = sheet[n]
            /\ (\/ sheet[n].status \in FINAL_STATUSES_FOR_STALE_CHECK
                \/ sheet[n].lastUpdate = NoDate
                \/ sheet[n].lastUpdate >= now' - WEEKS_THRESHOLD * 7)
                   => sheet'[n] = sheet[n]]_vars

\* C33 witness: a sweep has rejected a row that had reached Interview; the
\* peak status of the row is still Interview.
C33_RejectedRowKeepsPeak ==
    /\ now \in SweepDays
    /\ \E n \in 1..Len(sheet) :
         /\ sheet[n].status = REJECTED_STATUS
         /\ sheet[n].lastUpdate = now
         /\ sheet[n].peak = INTERVIEW_STATUS

\* C40: the sweep is idempotent: after a sweep no row is eligible for the
\* sweep at the same moment, so a second sweep run at once writes nothing and
\* its values are those of the sheet.
C40_SecondSweepChangesNothing ==
    now \in SweepDays =>
        /\ \A n \in 1..Len(sheet) : ~isStale(sheet[n], now)
        /\ sweptValues(sheet, now) = sheet

\* C40 witness: a sweep has rejected a row whose date was before the
\* threshold; the row is Rejected and dated today.
C40_RejectedRowNotEligible ==
    /\ now \in SweepDays
    /\ \E n \in 1..Len(sheet) :
         /\ sheet[n].status = REJECTED_STATUS
         /\ sheet[n].peak = DEFAULT_STATUS
         /\ sheet[n].lastUpdate = now

\* C8: a sweep sets status = Rejected and lastUpdateDate = now in exactly the
\* rows whose status is not protected and whose lastUpdateDate is strictly
\* older than now minus 7 weeks; every other row is left as it was.
C8_SweepRejectsExactlyStale ==
    [][/\ Len(sheet') = Len(sheet)
       /\ \A n \in 1..Len(sheet) :
            IF /\ sheet[n].status \notin FINAL_STATUSES_FOR_STALE_CHECK
               /\ sheet[n].lastUpdate # NoDate
               /\ sheet[n].lastUpdate < now' - 7 * 7
            THEN sheet'[n].status = REJECTED_STATUS /\ sheet'[n].lastUpdate = now'
            ELSE sheet'[n] = sheet[n]]_vars

\* C8 witness: a sweep has rejected a stale row and has left alone a row at
\* Offer/Accepted that is as stale.
C8_StaleRejectedOfferKept ==
    /\ now \in SweepDays
    /\ \E n, k \in 1..Len(sheet) :
         /\ sheet[n].status = REJECTED_STATUS
         /\ sheet[n].lastUpdate = now
         /\ sheet[k].status = ACCEPTED_STATUS
         /\ sheet[k].lastUpdate # NoDate
         /\ sheet[k].lastUpdate < now - 7 * 7

-----------------------------------------------------------------------------
(* A sweep that overlaps a run of _processingEngine. Both are started by     *)
(* time triggers and neither takes a lock: the sweep reads the whole data    *)
(* range, the run goes on writing, and the sweep writes the range back.      *)

\* the day of the overlapping sweep: rows last updated before day 1 are stale
sweepDay == WEEKS_THRESHOLD * 7 + 1

\* a row that is stale on sweepDay
staleRow == Row("Acme Corp", "Engineer", DEFAULT_STATUS, DEFAULT_STATUS, 0 - 1, NoId)

\* lines 474-476: the sweep reads the data range while a run is in progress
SweepReads ==
    /\ run.pc = "messages"
    /\ overlapped = Idle
    /\ overlapped' = [pc |-> "read", sheetValues |-> sheet, currentDate |-> sweepDay]
    /\ UNCHANGED <<labels, lastApply, arrived, sheet, now, run, hist, missing>>

\* lines 481-496: the loop over the values read, and setValues on the range
\* that was read: the rows below the range are not written
SweepWrites ==
    /\ overlapped.pc = "read"
    /\ LET sheetValues == overlapped.sheetValues
           written == sweptValues(sheetValues, overlapped.currentDate)
       IN  sheet' = IF \E n \in 1..Len(sheetValues) :
                          isStale(sheetValues[n], overlapped.currentDate)
                    THEN [n \in 1..Len(sheet) |->
                             IF n <= Len(written) THEN written[n] ELSE sheet[n]]
                    ELSE sheet
    /\ overlapped' = [pc |-> "written"]
    /\ UNCHANGED <<labels, lastApply, arrived, now, run, hist, missing>>

SweepOverlapInit ==
    /\ labels = [t \in Threads |-> {}]
    /\ lastApply = NoApply
    /\ arrived = <<>>
    /\ sheet \in {<<staleRow>>, <<userRow>>}
    /\ now = 0
    /\ run = Idle
    /\ hist = {}
    /\ missing = {}
    /\ overlapped = Idle

SweepOverlapNext ==
    \/ EngineMailbox
    \/ EngineStart
    \/ OverlapMessage
    \/ EngineWriteUpdate
    \/ EngineFinish
    \/ SweepReads
    \/ SweepWrites

SpecSweepOverlap == SweepOverlapInit /\ [][SweepOverlapNext]_vars

\* C37: a sweep that overlaps a run loses no row mutation of the run: a row
\* the run has updated or appended between the read of the sweep and its
\* write of the whole range holds the values of the run after that write.
C37_SweepKeepsRunWrites ==
    [][(overlapped.pc = "read" /\ overlapped'.pc = "written") =>
          \A n \in 1..Len(sheet) :
              (n > Len(overlapped.sheetValues) \/ sheet[n] # overlapped.sheetValues[n])
              => sheet'[n] = sheet[n]]_vars

-----------------------------------------------------------------------------
(* processJobLeadsWithGemini (Career_Suite_AI_v2.5-main/code.gs) *)

NEEDS_PROCESS_LABEL == "Job Application Potential/NeedsProcess"
DONE_PROCESS_LABEL == "Job Application Potential/DoneProcess"

\* MESSAGE_LIMIT of the script is 15; the model scales it down to the size of
\* its mailbox, so that a run can reach it inside a thread.
MESSAGE_LIMIT == 1

\* What happens to one message: its body is empty; a job is written; every
\* extracted job is N/A; the AI gives no job array; the API call fails; a
\* call of the try block throws.
LeadOutcomes == {"emptyBody", "written", "allNA", "noJobArray", "apiFailed", "threw"}
LeadFailures == {"noJobArray", "apiFailed", "threw"}

\* the row writeJobDataToSheet appends: job title and Source Email ID
leadRow(jobTitle, msgId) == [jobTitle |-> jobTitle, emailId |-> msgId]

\* getProcessedEmailIdsFromSheet(dataSheet)
getProcessedEmailIdsFromSheet == {sheet[n].emailId : n \in 1..Len(sheet)}

\* The filter labels an incoming job alert.
LeadArrives ==
    /\ run = Idle
    /\ Len(arrived) < MaxMsgs
    /\ \E t \in Threads :
         /\ \A u \in 1..(t - 1) : getMessages(u) # {}
         /\ arrived' = Append(arrived, t)
         /\ labels' = [labels EXCEPT ![t] = @ \cup {NEEDS_PROCESS_LABEL}]
    /\ UNCHANGED <<lastApply, sheet, now, run, hist, missing, overlapped>>

\* The run starts: processed ids and the threads under NeedsProcess.
LeadsStart ==
    /\ run = Idle
    /\ getThreads(NEEDS_PROCESS_LABEL) # {}
    /\ run' = [pc |-> "threads",
               processedEmailIds |-> getProcessedEmailIdsFromSheet,
               messagesProcessedThisRun |-> 0,
               threads |-> NewestFirst(getThreads(NEEDS_PROCESS_LABEL))]
    /\ UNCHANGED <<labels, lastApply, arrived, sheet, now, hist, missing, overlapped>>

\* Top of the thread loop: the message limit or the time limit ends the run.
LeadsBreak ==
    /\ run.pc = "threads"
    /\ run.threads # <<>>
    /\ run' = Idle
    /\ UNCHANGED <<labels, lastApply, arrived, sheet, now, hist, missing, overlapped>>

\* Top of the thread loop: the messages of the next thread are fetched.
LeadsThread ==
    /\ run.pc = "threads"
    /\ run.threads # <<>>
    /\ run.messagesProcessedThisRun < MESSAGE_LIMIT
    /\ run' = [pc |-> "messages",
               processedEmailIds |-> run.processedEmailIds,
               messagesProcessedThisRun |-> run.messagesProcessedThisRun,
               threads |-> run.threads,
               messages |-> SetToSeq(getMessages(Head(run.threads))),
               threadContainedUnprocessedMessages |-> FALSE,
               allMessagesInThreadProcessedSuccessfullyThisRun |-> TRUE,
               notSucceeded |-> {}]
    /\ UNCHANGED <<labels, lastApply, arrived, sheet, now, hist, missing, overlapped>>

\* One pass of the message loop. notSucceeded (history) collects the
\* messages of the thread, not processed before, that this run has not
\* processed successfully.
LeadsMessage ==
    /\ run.pc = "messages"
    /\ run.messages # <<>>
    /\ LET m == Head(run.messages)
           new(S) == {x \in S : x \notin run.processedEmailIds}
       IN  IF run.messagesProcessedThisRun >= MESSAGE_LIMIT
           THEN \* break
                /\ run' = [run EXCEPT
                              !.messages = <<>>,
                              !.notSucceeded =
                                  @ \cup new({run.messages[i] : i \in 1..Len(run.messages)})]
                /\ UNCHANGED sheet
           ELSE IF m \in run.processedEmailIds
           THEN \* continue
                /\ run' = [run EXCEPT !.messages = Tail(@)]
                /\ UNCHANGED sheet
           ELSE \E outcome \in LeadOutcomes :
                /\ run' = [run EXCEPT
                              !.messages = Tail(@),
                              !.threadContainedUnprocessedMessages = TRUE,
                              !.messagesProcessedThisRun = @ + 1,
                              !.allMessagesInThreadProcessedSuccessfullyThisRun =
                                  IF outcome \in LeadFailures THEN FALSE ELSE @,
                              !.notSucceeded =
                                  IF outcome \in LeadFailures THEN @ \cup {m} ELSE @]
                /\ sheet' = IF outcome = "written"
                            THEN Append(sheet, leadRow("Engineer", m))
                            ELSE IF outcome \in LeadFailures
                            THEN Append(sheet, leadRow("PROCESSING ERROR", m))
                            ELSE sheet
    /\ UNCHANGED <<labels, lastApply, arrived, now, hist, missing, overlapped>>

\* the labels of the thread after the message loop (lines 346-358)
leadLabelsAfter(currentLabels, containedUnprocessed, allSuccessful, messageCount) ==
    IF containedUnprocessed /\ allSuccessful
    THEN (currentLabels \ {NEEDS_PROCESS_LABEL}) \cup {DONE_PROCESS_LABEL}
    ELSE IF containedUnprocessed THEN currentLabels
    ELSE IF messageCount > 0
    THEN (currentLabels \ {NEEDS_PROCESS_LABEL}) \cup {DONE_PROCESS_LABEL}
    ELSE currentLabels \ {NEEDS_PROCESS_LABEL}

\* After the message loop of a thread: the thread is moved or stays.
LeadsThreadEnd ==
    /\ run.pc = "messages"
    /\ run.messages = <<>>
    /\ LET t == Head(run.threads)
           moved == /\ run.threadContainedUnprocessedMessages
                    /\ run.allMessagesInThreadProcessedSuccessfullyThisRun
       IN  /\ labels' = [labels EXCEPT ![t] =
                            leadLabelsAfter(@, run.threadContainedUnprocessedMessages,
                                run.allMessagesInThreadProcessedSuccessfullyThisRun,
                                Cardinality(getMessages(t)))]
           /\ run' = [pc |-> "threads",
                      processedEmailIds |->
                          IF moved THEN run.processedEmailIds \cup getMessages(t)
                          ELSE run.processedEmailIds,
                      messagesProcessedThisRun |-> run.messagesProcessedThisRun,
                      threads |-> Tail(run.threads)]
    /\ UNCHANGED <<lastApply, arrived, sheet, now, hist, missing, overlapped>>

\* The thread loop has taken every thread: the run ends.
LeadsFinish ==
    /\ run.pc = "threads"
    /\ run.threads = <<>>
    /\ run' = Idle
    /\ UNCHANGED <<labels, lastApply, arrived, sheet, now, hist, missing, overlapped>>

LeadsInit ==
    /\ labels = [t \in Threads |-> {}]
    /\ lastApply = NoApply
    /\ arrived = <<>>
    /\ sheet = <<>>
    /\ now = 0
    /\ run = Idle
    /\ hist = {}
    /\ missing = {}
    /\ overlapped = Idle

LeadsNext ==
    \/ LeadArrives
    \/ LeadsStart
    \/ LeadsBreak
    \/ LeadsThread
    \/ LeadsMessage
    \/ LeadsThreadEnd
    \/ LeadsFinish

SpecLeads == LeadsInit /\ [][LeadsNext]_vars

\* C18: a run moves a thread from NeedsProcess to DoneProcess only when it
\* has processed successfully every message of the thread that was not
\* processed before; a thread with a failed message keeps NeedsProcess at the
\* end of the run.
C18_MovedOnlyWhenAllSucceeded ==
    [][(run.pc = "messages" /\ run.messages = <<>>) =>
          LET t == Head(run.threads)
          IN  (labels'[t] # labels[t]) => run.notSucceeded = {}]_vars

\* the rows of the sheet that carry the id of message m
leadRowsOf(m) == {n \in 1..Len(sheet) : sheet[n].emailId = m}

\* C35: a message whose processing failed stays eligible: while the sheet
\* holds nothing but error entries for a message, its thread is not under
\* DoneProcess and the message is not skipped as processed.
C35_FailedMessageStaysEligible ==
    \A t \in Threads : \A m \in getMessages(t) :
        (/\ leadRowsOf(m) # {}
         /\ \A n \in leadRowsOf(m) : sheet[n].jobTitle = "PROCESSING ERROR")
        => /\ DONE_PROCESS_LABEL \notin labels[t]
           /\ run # Idle => m \notin run.processedEmailIds

\* C36: when a run takes NeedsProcess from a thread, every message of the
\* thread was processed before the run or has been processed by it: the
\* message limit reached inside the thread leaves no message of that thread
\* behind.
C36_LimitLeavesNoMessageBehind ==
    [][\A t \in Threads :
          (NEEDS_PROCESS_LABEL \in labels[t] /\ NEEDS_PROCESS_LABEL \notin labels'[t])
          => \A m \in getMessages(t) :
                 m \in run.processedEmailIds \/ m \notin run.notSucceeded]_vars

-----------------------------------------------------------------------------
(* parseCompanyFromDomain (unnamed/part_001). Strings are sequences of      *)
(* characters.                                                               *)

LowerCaseLetters ==
    <<"a", "b", "c", "d", "e", "f", "g", "h", "i", "j", "k", "l", "m",
      "n", "o", "p", "q", "r", "s", "t", "u", "v", "w", "x", "y", "z">>

UpperCaseLetters ==
    <<"A", "B", "C", "D", "E", "F", "G", "H", "I", "J", "K", "L", "M",
      "N", "O", "P", "Q", "R", "S", "T", "U", "V", "W", "X", "Y", "Z">>

DigitChars == {"0", "1", "2", "3", "4", "5", "6", "7", "8", "9"}

\* line 118
IGNORED_DOMAINS ==
    {<<"g", "r", "e", "e", "n", "h", "o", "u", "s", "e", ".", "i", "o">>,
     <<"l", "e", "v", "e", "r", ".", "c", "o">>,
     <<"m", "y", "w", "o", "r", "k", "d", "a", "y", ".", "c", "o", "m">>,
     <<"m", "y", "w", "o", "r", "k", "d", "a", "y", "j", "o", "b", "s", ".", "c", "o", "m">>,
     <<"i", "c", "i", "m", "s", ".", "c", "o", "m">>,
     <<"o", "r", "a", "c", "l", "e", "c", "l", "o", "u", "d", ".", "c", "o", "m">>,
     <<"s", "m", "a", "r", "t", "r", "e", "c", "r", "u", "i", "t", "e", "r", "s", ".", "c", "o", "m">>,
     <<"t", "a", "l", ".", "n", "e", "t">>,
     <<"t", "a", "l", "e", "o", ".", "n", "e", "t">>,
     <<"b", "a", "m", "b", "o", "o", "h", "r", ".", "c", "o", "m">>,
     <<"a", "s", "h", "b", "y", "h", "q", ".", "c", "o", "m">>,
     <<"w", "e", "l", "l", "f", "o", "u", "n", "d", ".", "c", "o", "m">>,
     <<"a", "n", "g", "e", "l", ".", "c", "o">>,
     <<"l", "i", "n", "k", "e", "d", "i", "n", ".", "c", "o", "m">>,
     <<"i", "n", "d", "e", "e", "d", ".", "c", "o", "m">>,
     <<"z", "i", "p", "r", "e", "c", "r", "u", "i", "t", "e", "r", ".", "c", "o", "m">>,
     <<"g", "l", "a", "s", "s", "d", "o", "o", "r", ".", "c", "o", "m">>,
     <<"h", "i", "r", "e", "d", ".", "c", "o", "m">>,
     <<"g", "o", "o", "g", "l", "e", ".", "c", "o", "m">>,
     <<"g", "o", "o", "g", "l", "e", "m", "a", "i", "l", ".", "c", "o", "m">>,
     <<"g", "m", "a", "i", "l", ".", "c", "o", "m">>,
     <<"o", "u", "t", "l", "o", "o", "k", ".", "c", "o", "m">>,
     <<"h", "o", "t", "m", "a", "i", "l", ".", "c", "o", "m">>,
     <<"l", "i", "v", "e", ".", "c", "o", "m">>,
     <<"y", "a", "h", "o", "o", ".", "c", "o", "m">>,
     <<"a", "o", "l", ".", "c", "o", "m">>,
     <<"m", "s", "n", ".", "c", "o", "m">>,
     <<"f", "a", "s", "t", "m", "a", "i", "l", ".", "c", "o", "m">>,
     <<"p", "r", "o", "t", "o", "n", "m", "a", "i", "l", ".", "c", "o", "m">>,
     <<"m", "a", "i", "l", ".", "c", "o", "m">>,
     <<"a", "m", "a", "z", "o", "n", "s", "e", "s", ".", "c", "o", "m">>,
     <<"s", "e", "n", "d", "g", "r", "i", "d", ".", "n", "e", "t">>,
     <<"s", "p", "a", "r", "k", "p", "o", "s", "t", "m", "a", "i", "l", ".", "c", "o", "m">>,
     <<"m", "a", "i", "l", "g", "u", "n", ".", "o", "r", "g">>}

\* the domains of the senders of the model: those of the ignore list and
\* some others
OtherDomains ==
    {<<"a", "c", "m", "e", ".", "c", "o", "m">>,
     <<"A", "C", "M", "E", ".", "c", "o", "m">>,
     <<"a", "c", "m", "e", "-", "c", "o", "r", "p", ".", "c", "o", ".", "u", "k">>,
     <<"j", "o", "b", "s", ".", "a", "c", "m", "e", ".", "c", "o", "m">>,
     <<"m", "a", "i", "l", ".", "g", "o", "o", "g", "l", "e", ".", "c", "o", "m">>,
     <<"h", "i", ".", "w", "e", "l", "l", "f", "o", "u", "n", "d", ".", "c", "o", "m">>,
     <<"n", "o", "t", "i", "f", "i", "c", "a", "t", "i", "o", "n", "s", ".", "a", "c", "m", "e", ".", "o", "r", "g">>,
     <<"h", "r", "-", "a", "c", "m", "e", ".", "i", "o">>,
     <<".", "i", "o">>,
     <<"x", "9", ".", "d", "e", "v">>,
     <<"G", "M", "A", "I", "L", ".", "C", "O", "M">>,
     <<"a", "c", "m", "e">>}

SenderDomains == IGNORED_DOMAINS \cup OtherDomains

\* the alternatives of the prefix pattern, in its order
DomainPrefixes ==
    <<<<"c", "a", "r", "e", "e", "r", "s">>,
      <<"j", "o", "b", "s">>,
      <<"r", "e", "c", "r", "u", "i", "t", "i", "n", "g">>,
      <<"a", "p", "p", "l", "y">>,
      <<"h", "r">>,
      <<"t", "a", "l", "e", "n", "t">>,
      <<"n", "o", "t", "i", "f", "i", "c", "a", "t", "i", "o", "n">>,
      <<"n", "o", "t", "i", "f", "i", "c", "a", "t", "i", "o", "n", "s">>>>

\* String.prototype.toLowerCase / toUpperCase on one character
lowerChar(c) ==
    IF \E i \in 1..26 : UpperCaseLetters[i] = c
    THEN LowerCaseLetters[CHOOSE i \in 1..26 : UpperCaseLetters[i] = c]
    ELSE c
upperChar(c) ==
    IF \E i \in 1..26 : LowerCaseLetters[i] = c
    THEN UpperCaseLetters[CHOOSE i \in 1..26 : LowerCaseLetters[i] = c]
    ELSE c

\* String.prototype.toLowerCase on a sequence of characters
lowerCase(s) == [i \in 1..Len(s) |-> lowerChar(s[i])]

\* [a-z] and [a-z0-9] under the flag i
isLetter(c) == \E i \in 1..26 : LowerCaseLetters[i] = c \/ UpperCaseLetters[i] = c
isAlphanumeric(c) == isLetter(c) \/ c \in DigitChars

\* what the function returns: null or a string
NullResult == [isNull |-> TRUE, value |-> <<>>]
StringResult(s) == [isNull |-> FALSE, value |-> s]

\* sender.match(/<([^>]+)>/): the first group of the leftmost match
emailMatch(sender) ==
    LET opens == {i \in 1..Len(sender) :
                     /\ sender[i] = "<"
                     /\ i + 1 <= Len(sender)
                     /\ sender[i + 1] # ">"
                     /\ \E j \in (i + 2)..Len(sender) : sender[j] = ">"}
    IN  IF opens = {} THEN NullResult
        ELSE LET i == CHOOSE x \in opens : \A y \in opens : x <= y
                 j == CHOOSE x \in (i + 2)..Len(sender) :
                          /\ sender[x] = ">"
                          /\ \A y \in (i + 2)..(x - 1) : sender[y] # ">"
             IN  StringResult(SubSeq(sender, i + 1, j - 1))

\* domain.replace(/^(?:careers|jobs|...|notifications)[.-]/i, '')
stripPrefix(domain) ==
    LET hits == {k \in 1..Len(DomainPrefixes) :
                    /\ Len(domain) > Len(DomainPrefixes[k])
                    /\ lowerCase(SubSeq(domain, 1, Len(DomainPrefixes[k]))) = DomainPrefixes[k]
                    /\ domain[Len(DomainPrefixes[k]) + 1] \in {".", "-"}}
    IN  IF hits = {} THEN domain
        ELSE LET k == CHOOSE x \in hits : \A y \in hits : x <= y
             IN  SubSeq(domain, Len(DomainPrefixes[k]) + 2, Len(domain))

\* domain.replace(/\.[a-z]{2,}(\.[a-z]{2})?$/i, ''): the leftmost match that
\* reaches the end of the string is removed
stripTld(domain) ==
    LET letters(s) == \A i \in 1..Len(s) : isLetter(s[i])
        tail(i) == SubSeq(domain, i + 1, Len(domain))
        matchesAt(i) ==
            /\ domain[i] = "."
            /\ \/ Len(tail(i)) >= 2 /\ letters(tail(i))
               \/ /\ Len(tail(i)) >= 5
                  /\ tail(i)[Len(tail(i)) - 2] = "."
                  /\ letters(SubSeq(tail(i), Len(tail(i)) - 1, Len(tail(i))))
                  /\ letters(SubSeq(tail(i), 1, Len(tail(i)) - 3))
        hits == {i \in 1..Len(domain) : matchesAt(i)}
    IN  IF hits = {} THEN domain
        ELSE SubSeq(domain, 1, (CHOOSE x \in hits : \A y \in hits : x <= y) - 1)

\* domain.replace(/[^a-z0-9]/gi, ' ')
spaced(domain) ==
    [i \in 1..Len(domain) |-> IF isAlphanumeric(domain[i]) THEN domain[i] ELSE " "]

RECURSIVE capitalizedWords(_, _)
\* split(' '), filter of the empty words, first letter in upper case: the
\* words of s, each preceded by one space; prev is the character before s
capitalizedWords(s, prev) ==
    IF s = <<>> THEN <<>>
    ELSE IF Head(s) = " " THEN capitalizedWords(Tail(s), " ")
    ELSE (IF prev = " " THEN <<" ", upperChar(Head(s))>> ELSE <<Head(s)>>)
         \o capitalizedWords(Tail(s), Head(s))

\* ... .join(' '), then trim()
joinedWords(s) ==
    LET w == capitalizedWords(s, " ") IN IF w = <<>> THEN <<>> ELSE Tail(w)

\* the ignore test that lets every domain through
noDomainIgnored(domain) == FALSE

\* line 175: IGNORED_DOMAINS.has(domain) && domain !== 'hi.wellfound.com'
domainIgnored(domain) ==
    /\ domain \in IGNORED_DOMAINS
    /\ domain # <<"h", "i", ".", "w", "e", "l", "l", "f", "o", "u", "n", "d", ".", "c", "o", "m">>

parseCompanyFromDomain(sender) ==
    LET m == emailMatch(sender)
        emailAddress == m.value
        ats == {i \in 1..Len(emailAddress) : emailAddress[i] = "@"}
        at == CHOOSE i \in ats : TRUE
        domain == lowerCase(SubSeq(emailAddress, at + 1, Len(emailAddress)))
        finalDomain == joinedWords(spaced(stripTld(stripPrefix(domain))))
    IN  IF m.isNull THEN NullResult
        ELSE IF Cardinality(ats) # 1 THEN NullResult
        ELSE IF domainIgnored(domain) THEN NullResult
        ELSE IF finalDomain = <<>> THEN NullResult
        ELSE StringResult(finalDomain)

\* extractCompanyAndTitle, step 5: the company when nothing else has given
\* one; a null result leaves the manual-review sentinel
senderFallback(tempCompanyFromName, tempCompanyFromDomain) ==
    IF ~tempCompanyFromName.isNull
    THEN [source |-> "name", company |-> tempCompanyFromName]
    ELSE IF ~tempCompanyFromDomain.isNull
    THEN [source |-> "domain", company |-> tempCompanyFromDomain]
    ELSE [source |-> "none", company |-> NullResult]

-----------------------------------------------------------------------------
(* Specification of the sender parsing alone: any sender of the model *)

\* the sender strings: '<test@domain>', 'Acme <test@domain>', 'test@domain'
\* for the domains of the model, and the test's 'invalid-sender'
LocalPart == <<"t", "e", "s", "t">>
Senders ==
    {[form |-> "address", domain |-> d,
      text |-> <<"<">> \o LocalPart \o <<"@">> \o d \o <<">">>] : d \in SenderDomains}
    \cup {[form |-> "named", domain |-> d,
           text |-> <<"A", "c", "m", "e", " ", "<">> \o LocalPart \o <<"@">> \o d \o <<">">>] :
              d \in SenderDomains}
    \cup {[form |-> "plain", domain |-> d, text |-> LocalPart \o <<"@">> \o d] :
              d \in SenderDomains}
    \cup {[form |-> "invalid", domain |-> <<>>,
           text |-> <<"i", "n", "v", "a", "l", "i", "d", "-", "s", "e", "n", "d", "e", "r">>]}

\* what parseCompanyFromSenderName gives for the sender: null or a name
SenderNameResults == {NullResult, StringResult(<<"A", "c", "m", "e">>)}

\* extractCompanyAndTitle pre-parses the sender (lines 258-266) and, with no
\* company found otherwise, falls back on the results (lines 501-513).
CallParseCompanyFromDomain ==
    \E s \in Senders, tempCompanyFromName \in SenderNameResults :
        /\ run = Idle
        /\ run' = [pc |-> "parsed",
                   sender |-> s,
                   result |-> parseCompanyFromDomain(s.text),
                   fallback |-> senderFallback(tempCompanyFromName,
                                               parseCompanyFromDomain(s.text))]
        /\ UNCHANGED <<labels, lastApply, arrived, sheet, now, hist, missing, overlapped>>

ParseInit ==
    /\ labels = [t \in Threads |-> {}]
    /\ lastApply = NoApply
    /\ arrived = <<>>
    /\ sheet = <<>>
    /\ now = 0
    /\ run = Idle
    /\ hist = {}
    /\ missing = {}
    /\ overlapped = Idle

ParseNext == CallParseCompanyFromDomain

SpecParse == ParseInit /\ [][ParseNext]_vars

\* the domain has the form name.tld: letters, one dot, letters
isNameTld(domain) ==
    /\ Cardinality({i \in 1..Len(domain) : domain[i] = "."}) = 1
    /\ domain[1] # "."
    /\ domain[Len(domain)] # "."
    /\ \A i \in 1..Len(domain) : domain[i] = "." \/ isLetter(domain[i])

\* the name of a name.tld domain, in title case
titleCasedName(domain) ==
    LET dot == CHOOSE i \in 1..Len(domain) : domain[i] = "."
        name == lowerCase(SubSeq(domain, 1, dot - 1))
    IN  <<upperChar(name[1])>> \o Tail(name)

\* C19: for a sender '<local@name.tld>' the function returns the domain name
\* without the TLD, in title case ('<test@google.com>' gives 'Google'); for a
\* sender without an '<address>' part it returns null.
C19_DomainNameTitleCased ==
    run.pc = "parsed" =>
        /\ (run.sender.form = "address" /\ isNameTld(run.sender.domain))
              => run.result = StringResult(titleCasedName(run.sender.domain))
        /\ run.sender.form \in {"plain", "invalid"} => run.result = NullResult

-----------------------------------------------------------------------------
(* parseBodyForStatus (unnamed/part_001). Strings are sequences of          *)
(* characters.                                                               *)

\* line 105
REJECTION_KEYWORDS ==
    {<<"u","n","f","o","r","t","u","n","a","t","e","l","y">>,
     <<"r","e","g","r","e","t"," ","t","o"," ","i","n","f","o","r","m">>,
     <<"n","o","t"," ","m","o","v","i","n","g"," ","f","o","r","w","a","r","d">>,
     <<"w","i","l","l"," ","n","o","t"," ","b","e"," ","p","r","o","c","e","e","d","i","n","g">>,
     <<"w","o","n","'","t"," ","b","e"," ","m","o","v","i","n","g"," ","f","o","r","w","a","r","d">>,
     <<"a","p","p","l","i","c","a","t","i","o","n"," ","w","a","s"," ","u","n","s","u","c","c","e","s","s","f","u","l">>,
     <<"y","o","u"," ","h","a","v","e"," ","n","o","t"," ","b","e","e","n"," ","s","e","l","e","c","t","e","d">>,
     <<"d","i","d"," ","n","o","t"," ","s","e","l","e","c","t"," ","y","o","u">>,
     <<"w","e","r","e","n","'","t"," ","s","e","l","e","c","t","e","d">>,
     <<"d","e","c","l","i","n","e"," ","t","o"," ","m","o","v","e"," ","f","o","r","w","a","r","d">>,
     <<"u","n","a","b","l","e"," ","t","o"," ","o","f","f","e","r"," ","y","o","u"," ","t","h","e"," ","p","o","s","i","t","i","o","n">>,
     <<"w","i","l","l"," ","n","o","t"," ","b","e"," ","a","d","v","a","n","c","i","n","g">>,
     <<"d","e","c","i","s","i","o","n"," ","h","a","s"," ","b","e","e","n"," ","m","a","d","e"," ","t","o"," ","n","o","t"," ","p","r","o","c","e","e","d">>,
     <<"w","i","l","l"," ","n","o","t"," ","b","e"," ","m","o","v","i","n","g"," ","y","o","u","r"," ","a","p","p","l","i","c","a","t","i","o","n"," ","f","o","r","w","a","r","d">>,
     <<"a","p","p","l","i","c","a","t","i","o","n"," ","w","i","l","l"," ","n","o","t"," ","b","e"," ","g","i","v","e","n"," ","f","u","r","t","h","e","r"," ","c","o","n","s","i","d","e","r","a","t","i","o","n">>,
     <<"s","e","l","e","c","t","e","d"," ","o","t","h","e","r"," ","c","a","n","d","i","d","a","t","e">>,
     <<"p","u","r","s","u","i","n","g"," ","o","t","h","e","r"," ","a","p","p","l","i","c","a","n","t">>,
     <<"o","t","h","e","r"," ","c","a","n","d","i","d","a","t","e","s">>,
     <<"b","e","t","t","e","r"," ","a","l","i","g","n","e","d"," ","c","a","n","d","i","d","a","t","e","s">>,
     <<"d","e","c","i","d","e","d"," ","t","o"," ","p","r","o","c","e","e","d"," ","w","i","t","h"," ","o","t","h","e","r"," ","a","p","p","l","i","c","a","n","t","s">>,
     <<"h","a","v","e"," ","c","h","o","s","e","n"," ","a","n","o","t","h","e","r"," ","c","a","n","d","i","d","a","t","e">>,
     <<"m","o","v","e"," ","f","o","r","w","a","r","d"," ","w","i","t","h"," ","a","n","o","t","h","e","r"," ","c","a","n","d","i","d","a","t","e">>,
     <<"n","o","t"," ","s","e","l","e","c","t"," ","y","o","u"," ","f","o","r"," ","f","u","r","t","h","e","r"," ","c","o","n","s","i","d","e","r","a","t","i","o","n">>,
     <<"q","u","a","l","i","f","i","c","a","t","i","o","n","s"," ","m","o","r","e"," ","c","l","o","s","e","l","y"," ","m","a","t","c","h">>,
     <<"o","t","h","e","r"," ","a","p","p","l","i","c","a","n","t","s"," ","w","e","r","e"," ","a"," ","b","e","t","t","e","r"," ","m","a","t","c","h">>,
     <<"f","o","c","u","s","e","d"," ","o","n"," ","c","a","n","d","i","d","a","t","e","s"," ","w","h","o","s","e"," ","e","x","p","e","r","i","e","n","c","e","s"," ","m","o","r","e"," ","c","l","o","s","e","l","y"," ","a","l","i","g","n">>,
     <<"p","o","s","i","t","i","o","n"," ","h","a","s"," ","b","e","e","n"," ","f","i","l","l","e","d">>,
     <<"f","i","l","l","e","d"," ","t","h","e"," ","r","o","l","e">>,
     <<"p","o","s","i","t","i","o","n"," ","i","s"," ","n","o"," ","l","o","n","g","e","r"," ","a","v","a","i","l","a","b","l","e">>,
     <<"p","o","s","i","t","i","o","n"," ","i","s"," ","n","o","w"," ","c","l","o","s","e","d">>,
     <<"r","o","l","e"," ","h","a","s"," ","b","e","e","n"," ","f","i","l","l","e","d">>,
     <<"a","f","t","e","r"," ","c","a","r","e","f","u","l"," ","c","o","n","s","i","d","e","r","a","t","i","o","n">>,
     <<"t","h","a","n","k"," ","y","o","u"," ","f","o","r"," ","y","o","u","r"," ","i","n","t","e","r","e","s","t",","," ","h","o","w","e","v","e","r">>,
     <<"w","i","s","h"," ","y","o","u"," ","a","l","l"," ","t","h","e"," ","b","e","s","t">>,
     <<"w","i","s","h"," ","y","o","u"," ","s","u","c","c","e","s","s"," ","i","n"," ","y","o","u","r"," ","j","o","b"," ","s","e","a","r","c","h">>,
     <<"e","n","c","o","u","r","a","g","e"," ","y","o","u"," ","t","o"," ","a","p","p","l","y"," ","f","o","r"," ","f","u","t","u","r","e"," ","r","o","l","e","s">>,
     <<"k","e","e","p"," ","y","o","u","r"," ","r","e","s","u","m","e"," ","o","n"," ","f","i","l","e">>,
     <<"k","e","e","p"," ","y","o","u","r"," ","p","r","o","f","i","l","e"," ","o","n"," ","f","i","l","e">>,
     <<"b","e","s","t"," ","o","f"," ","l","u","c","k">>,
     <<"u","n","a","b","l","e">>}

\* line 106
ACCEPTANCE_KEYWORDS ==
    {<<"p","l","e","a","s","e","d"," ","t","o"," ","o","f","f","e","r">>,
     <<"o","f","f","e","r"," ","o","f"," ","e","m","p","l","o","y","m","e","n","t">>,
     <<"j","o","b"," ","o","f","f","e","r">>,
     <<"e","x","t","e","n","d"," ","a","n"," ","o","f","f","e","r">>,
     <<"t","h","r","i","l","l","e","d"," ","t","o"," ","o","f","f","e","r">>,
     <<"h","a","p","p","y"," ","t","o"," ","e","x","t","e","n","d"," ","a","n"," ","o","f","f","e","r">>,
     <<"e","x","t","e","n","d"," ","a"," ","f","o","r","m","a","l"," ","o","f","f","e","r">>,
     <<"o","f","f","e","r"," ","d","e","t","a","i","l","s">>,
     <<"l","e","t","t","e","r"," ","o","f"," ","o","f","f","e","r">>,
     <<"o","f","f","i","c","i","a","l"," ","o","f","f","e","r"," ","l","e","t","t","e","r">>,
     <<"p","l","e","a","s","e","d"," ","t","o"," ","e","x","t","e","n","d">>,
     <<"f","o","r","m","a","l"," ","o","f","f","e","r"," ","o","f"," ","e","m","p","l","o","y","m","e","n","t">>,
     <<"c","o","n","d","i","t","i","o","n","a","l"," ","o","f","f","e","r">>,
     <<"d","e","t","a","i","l","s"," ","o","n"," ","y","o","u","r"," ","o","f","f","e","r">>,
     <<"c","o","n","g","r","a","t","u","l","a","t","i","o","n","s">>,
     <<"w","e","l","c","o","m","e"," ","a","b","o","a","r","d">>,
     <<"e","x","c","i","t","e","d"," ","t","o"," ","h","a","v","e"," ","y","o","u"," ","j","o","i","n">>,
     <<"w","e","l","c","o","m","e"," ","t","o"," ","t","h","e"," ","t","e","a","m">>,
     <<"n","e","x","t"," ","s","t","e","p","s"," ","i","n","c","l","u","d","e"," ","y","o","u","r"," ","o","f","f","e","r">>,
     <<"f","i","n","a","l","i","z","i","n","g"," ","t","h","e"," ","o","f","f","e","r"," ","d","e","t","a","i","l","s">>,
     <<"p","l","e","a","s","e"," ","f","i","n","d"," ","y","o","u","r"," ","o","f","f","e","r"," ","a","t","t","a","c","h","e","d">>,
     <<"w","a","s"," ","a","c","c","e","p","t","e","d">>,
     <<"n","e","x","t"," ","s","t","e","p","s"," ","i","n"," ","t","h","e"," ","o","f","f","e","r"," ","p","r","o","c","e","s","s">>,
     <<"c","o","m","p","e","n","s","a","t","i","o","n"," ","p","a","c","k","a","g","e">>,
     <<"o","f","f","e","r"," ","i","n","c","l","u","d","e","s"," ","d","e","t","a","i","l","s"," ","o","n"," ","c","o","m","p","e","n","s","a","t","i","o","n">>,
     <<"b","a","c","k","g","r","o","u","n","d"," ","c","h","e","c","k"," ","i","n","i","t","i","a","t","e","d">>,
     <<"o","n","b","o","a","r","d","i","n","g"," ","d","o","c","u","m","e","n","t","s">>,
     <<"s","t","a","r","t"," ","d","a","t","e">>}

\* line 107
INTERVIEW_KEYWORDS ==
    {<<"i","n","v","i","t","a","t","i","o","n"," ","t","o"," ","i","n","t","e","r","v","i","e","w">>,
     <<"s","c","h","e","d","u","l","e"," ","a","n"," ","i","n","t","e","r","v","i","e","w">>,
     <<"i","n","t","e","r","v","i","e","w"," ","r","e","q","u","e","s","t">>,
     <<"i","n","v","i","t","e","d"," ","t","o"," ","i","n","t","e","r","v","i","e","w">>,
     <<"l","i","k","e"," ","t","o"," ","s","c","h","e","d","u","l","e"," ","a"," ","t","i","m","e">>,
     <<"s","c","h","e","d","u","l","e"," ","t","i","m","e"," ","t","o"," ","c","h","a","t">>,
     <<"s","c","h","e","d","u","l","e"," ","a"," ","c","a","l","l">>,
     <<"s","c","h","e","d","u","l","e"," ","y","o","u","r"," ","i","n","t","e","r","v","i","e","w">>,
     <<"s","e","t"," ","u","p"," ","a","n"," ","i","n","t","e","r","v","i","e","w">>,
     <<"b","o","o","k"," ","a","n"," ","i","n","t","e","r","v","i","e","w">>,
     <<"i","n","t","e","r","v","i","e","w"," ","c","o","o","r","d","i","n","a","t","i","o","n">>,
     <<"i","n","t","e","r","v","i","e","w"," ","a","v","a","i","l","a","b","i","l","i","t","y">>,
     <<"c","o","n","f","i","r","m"," ","a"," ","t","i","m","e">>,
     <<"s","u","g","g","e","s","t"," ","s","o","m","e"," ","t","i","m","e","s">>,
     <<"c","a","l","e","n","d","a","r"," ","i","n","v","i","t","a","t","i","o","n">>,
     <<"b","o","o","k","i","n","g"," ","l","i","n","k">>,
     <<"u","s","e"," ","t","h","i","s"," ","l","i","n","k"," ","t","o"," ","s","c","h","e","d","u","l","e">>,
     <<"s","p","e","a","k"," ","w","i","t","h"," ","y","o","u"," ","a","b","o","u","t"," ","y","o","u","r"," ","a","p","p","l","i","c","a","t","i","o","n">>,
     <<"s","p","e","a","k"," ","f","u","r","t","h","e","r">>,
     <<"d","i","s","c","u","s","s","i","o","n"," ","r","e","g","a","r","d","i","n","g"," ","y","o","u","r"," ","a","p","p","l","i","c","a","t","i","o","n">>,
     <<"c","h","a","t"," ","a","b","o","u","t"," ","y","o","u","r"," ","b","a","c","k","g","r","o","u","n","d">>,
     <<"f","o","l","l","o","w","-","u","p"," ","c","o","n","v","e","r","s","a","t","i","o","n">>,
     <<"m","e","e","t"," ","w","i","t","h">>,
     <<"t","e","a","m"," ","w","o","u","l","d"," ","l","i","k","e"," ","t","o"," ","m","e","e","t"," ","y","o","u">>,
     <<"i","n","v","i","t","e","d"," ","t","o"," ","m","e","e","t"," ","t","h","e"," ","t","e","a","m">>,
     <<"a","v","a","i","l","a","b","i","l","i","t","y"," ","f","o","r"," ","a"," ","c","o","n","v","e","r","s","a","t","i","o","n">>,
     <<"p","r","e","l","i","m","i","n","a","r","y"," ","i","n","t","e","r","v","i","e","w">>,
     <<"s","p","e","a","k"," ","w","i","t","h"," ","t","h","e"," ","t","e","a","m">>,
     <<"m","e","e","t"," ","t","h","e"," ","h","i","r","i","n","g"," ","m","a","n","a","g","e","r">>,
     <<"n","e","x","t"," ","s","t","e","p"," ","i","s"," ","a","n"," ","i","n","t","e","r","v","i","e","w">>,
     <<"n","e","x","t"," ","r","o","u","n","d">>,
     <<"p","r","o","c","e","e","d"," ","w","i","t","h"," ","i","n","t","e","r","v","i","e","w"," ","p","r","o","c","e","s","s">>,
     <<"i","n","t","e","r","v","i","e","w"," ","l","o","o","p">>,
     <<"p","r","o","c","e","e","d","i","n","g"," ","t","o"," ","t","h","e"," ","n","e","x","t"," ","s","t","a","g","e">>,
     <<"m","o","v","i","n","g"," ","t","o"," ","t","h","e"," ","i","n","t","e","r","v","i","e","w"," ","p","h","a","s","e">>,
     <<"a","d","v","a","n","c","i","n","g"," ","y","o","u","r"," ","a","p","p","l","i","c","a","t","i","o","n">>,
     <<"i","n","t","r","o","d","u","c","t","o","r","y"," ","c","a","l","l">>,
     <<"p","h","o","n","e"," ","s","c","r","e","e","n">>,
     <<"v","i","d","e","o"," ","i","n","t","e","r","v","i","e","w">>,
     <<"v","i","r","t","u","a","l"," ","i","n","t","e","r","v","i","e","w">>,
     <<"t","e","c","h","n","i","c","a","l"," ","i","n","t","e","r","v","i","e","w">>,
     <<"b","e","h","a","v","i","o","r","a","l"," ","i","n","t","e","r","v","i","e","w">>,
     <<"p","a","n","e","l"," ","i","n","t","e","r","v","i","e","w">>,
     <<"h","i","r","i","n","g"," ","m","a","n","a","g","e","r"," ","i","n","t","e","r","v","i","e","w">>,
     <<"o","n","s","i","t","e"," ","i","n","t","e","r","v","i","e","w">>}

\* line 108
ASSESSMENT_KEYWORDS ==
    {<<"a","s","s","e","s","s","m","e","n","t">>,
     <<"c","o","d","i","n","g"," ","c","h","a","l","l","e","n","g","e">>,
     <<"o","n","l","i","n","e"," ","t","e","s","t">>,
     <<"s","c","r","e","e","n","i","n","g"," ","t","a","s","k">>,
     <<"t","e","c","h","n","i","c","a","l"," ","s","c","r","e","e","n">>,
     <<"a","s","s","i","g","n","m","e","n","t">>,
     <<"c","o","d","i","n","g"," ","e","x","e","r","c","i","s","e">>,
     <<"t","e","c","h","n","i","c","a","l"," ","e","v","a","l","u","a","t","i","o","n">>,
     <<"c","o","m","p","l","e","t","e"," ","a","n"," ","a","s","s","e","s","s","m","e","n","t">>,
     <<"t","a","k","e","-","h","o","m","e"," ","t","a","s","k">>,
     <<"p","r","o","b","l","e","m","-","s","o","l","v","i","n","g"," ","e","x","e","r","c","i","s","e">>,
     <<"p","r","a","c","t","i","c","a","l"," ","t","e","s","t">>,
     <<"t","e","c","h","n","i","c","a","l"," ","a","s","s","i","g","n","m","e","n","t">>,
     <<"s","k","i","l","l","s"," ","a","s","s","e","s","s","m","e","n","t">>,
     <<"s","k","i","l","l","s"," ","t","e","s","t">>,
     <<"c","a","n","d","i","d","a","t","e"," ","a","s","s","e","s","s","m","e","n","t"," ","t","e","s","t">>,
     <<"o","n","l","i","n","e"," ","a","s","s","e","s","s","m","e","n","t">>,
     <<"c","o","d","i","n","g"," ","a","s","s","e","s","s","m","e","n","t">>,
     <<"t","e","c","h","n","i","c","a","l"," ","t","a","s","k">>,
     <<"c","o","m","p","l","e","t","e"," ","t","h","i","s"," ","a","s","s","i","g","n","m","e","n","t">>,
     <<"t","a","k","e","-","h","o","m","e"," ","a","s","s","i","g","n","m","e","n","t">>,
     <<"c","a","s","e"," ","s","t","u","d","y">>,
     <<"r","e","q","u","i","r","e","d"," ","t","o"," ","c","o","m","p","l","e","t","e">>,
     <<"i","n","v","i","t","e"," ","y","o","u"," ","t","o"," ","t","a","k","e">>,
     <<"h","a","c","k","e","r","r","a","n","k">>,
     <<"c","o","d","i","l","i","t","y">>,
     <<"n","e","x","t"," ","s","t","e","p"," ","i","s"," ","a"," ","t","e","s","t">>,
     <<"h","o","m","e","w","o","r","k"," ","a","s","s","i","g","n","m","e","n","t">>,
     <<"p","a","r","t"," ","o","f"," ","o","u","r"," ","p","r","o","c","e","s","s"," ","i","n","v","o","l","v","e","s"," ","a">>}
\* line 577: replace(/[punctuation]/g, ' '), on the ASCII characters of the
\* class
withoutPunctuation(s) ==
    LET PunctuationChars ==
            {".", ",", "!", "?", ";", ":", "(", ")", "[", "]", "{", "}", "'", "\"", "-",
             "@", "#", "$", "%", "^", "&", "*", "+", "=", "<", ">"}
    IN  [i \in 1..Len(s) |-> IF s[i] \in PunctuationChars THEN " " ELSE s[i]]

\* line 578: replace(/\s+/g, ' ') with the leading run of whitespace dropped;
\* afterSpace tells that the character before s was whitespace
RECURSIVE collapsed(_, _)
collapsed(s, afterSpace) ==
    IF s = <<>> THEN <<>>
    ELSE IF Head(s) \in {" ", "\n", "\t"}
    THEN (IF afterSpace THEN <<>> ELSE <<" ">>) \o collapsed(Tail(s), TRUE)
    ELSE <<Head(s)>> \o collapsed(Tail(s), FALSE)

\* line 578: replace(/\s+/g, ' ').trim()
normalizedWhitespace(s) ==
    LET c == collapsed(s, TRUE)
    IN  IF c # <<>> /\ c[Len(c)] = " " THEN SubSeq(c, 1, Len(c) - 1) ELSE c

\* the test of lines 581, 585, 589 and 594: KEYWORDS.some(keyword =>
\* bodyLower.includes(` ${keyword} `) || bodyLower.startsWith(`${keyword} `)
\* || bodyLower.endsWith(` ${keyword}`))
someKeyword(bodyLower, keywords) ==
    LET includes(s, sub) ==
            \E i \in 1..(Len(s) - Len(sub) + 1) : SubSeq(s, i, i + Len(sub) - 1) = sub
        startsWith(s, sub) == Len(sub) <= Len(s) /\ SubSeq(s, 1, Len(sub)) = sub
        endsWith(s, sub) ==
            Len(sub) <= Len(s) /\ SubSeq(s, Len(s) - Len(sub) + 1, Len(s)) = sub
    IN  \E keyword \in keywords :
            \/ includes(bodyLower, <<" ">> \o keyword \o <<" ">>)
            \/ startsWith(bodyLower, keyword \o <<" ">>)
            \/ endsWith(bodyLower, <<" ">> \o keyword)

\* parseBodyForStatus(plainBody); a missing body is the empty string
parseBodyForStatus(plainBody) ==
    IF plainBody = <<>> \/ Len(plainBody) < 10 THEN Null
    ELSE LET bodyLower ==
                 normalizedWhitespace(withoutPunctuation(lowerCase(plainBody)))
         IN  CASE someKeyword(bodyLower, ACCEPTANCE_KEYWORDS) -> ACCEPTED_STATUS
               [] someKeyword(bodyLower, INTERVIEW_KEYWORDS) -> INTERVIEW_STATUS
               [] someKeyword(bodyLower, ASSESSMENT_KEYWORDS) -> ASSESSMENT_STATUS
               [] someKeyword(bodyLower, REJECTION_KEYWORDS) -> REJECTED_STATUS
               [] OTHER -> Null

\* the sentences of the bodies of the model
BodySentences ==
    {<<"W","e"," ","a","r","e"," ","p","l","e","a","s","e","d"," ","t","o"," ","o","f","f","e","r"," ","y","o","u"," ","t","h","e"," ","r","o","l","e">>,
     <<"C","o","n","g","r","a","t","u","l","a","t","i","o","n","s">>,
     <<"U","n","f","o","r","t","u","n","a","t","e","l","y">>,
     <<"w","e"," ","w","o","n","'","t"," ","b","e"," ","m","o","v","i","n","g"," ","f","o","r","w","a","r","d">>,
     <<"p","l","e","a","s","e"," ","s","c","h","e","d","u","l","e"," ","a","n"," ","i","n","t","e","r","v","i","e","w">>,
     <<"a"," ","t","a","k","e","-","h","o","m","e"," ","t","a","s","k"," ","f","o","l","l","o","w","s">>,
     <<"c","o","m","p","l","e","t","e"," ","t","h","e"," ","o","n","l","i","n","e"," ","t","e","s","t">>,
     <<"y","o","u","r"," ","r","e","a","s","s","e","s","s","m","e","n","t"," ","i","s"," ","d","u","e">>,
     <<"T","h","a","n","k"," ","y","o","u"," ","f","o","r"," ","a","p","p","l","y","i","n","g">>,
     <<"J","o","b"," ","o","f","f","e","r">>,
     <<>>}

\* the bodies of the model: one sentence, or two with ". " or "!\n" between
PlainBodies ==
    BodySentences
    \cup {a \o sep \o b : a \in BodySentences, sep \in {<<"."," ">>, <<"!","\n">>},
                           b \in BodySentences}

\* parseBodyForStatus is called on a body
CallParseBodyForStatus ==
    /\ run = Idle
    /\ \E plainBody \in PlainBodies :
         run' = [pc |-> "parsed", plainBody |-> plainBody,
                 keywordStatus |-> parseBodyForStatus(plainBody)]
    /\ UNCHANGED <<labels, lastApply, arrived, sheet, now, hist, missing, overlapped>>

BodyInit ==
    /\ labels = [t \in Threads |-> {}]
    /\ lastApply = NoApply
    /\ arrived = <<>>
    /\ sheet = <<>>
    /\ now = 0
    /\ run = Idle
    /\ hist = {}
    /\ missing = {}
    /\ overlapped = Idle

BodyNext == CallParseBodyForStatus

SpecBody == BodyInit /\ [][BodyNext]_vars

\* keyword stands in body as a whole phrase: no letter or digit touches it
presentAsWholePhrase(body, keyword) ==
    \E i \in 1..(Len(body) - Len(keyword) + 1) :
        /\ SubSeq(body, i, i + Len(keyword) - 1) = keyword
        /\ (i = 1 \/ ~isAlphanumeric(body[i - 1]))
        /\ (i + Len(keyword) - 1 = Len(body) \/ ~isAlphanumeric(body[i + Len(keyword)]))

\* C28: parseBodyForStatus returns the status of the first of the keyword
\* lists acceptance, interview, assessment, rejection that has a keyword
\* present in the body as a whole phrase, and null when no list has one or
\* the body is missing or shorter than 10 characters.
C28_FirstMatchingList ==
    run.pc = "parsed" =>
        LET body == lowerCase(run.plainBody)
            has(keywords) == \E keyword \in keywords : presentAsWholePhrase(body, keyword)
        IN  run.keywordStatus =
                IF Len(run.plainBody) < 10 THEN Null
                ELSE CASE has(ACCEPTANCE_KEYWORDS) -> ACCEPTED_STATUS
                       [] has(INTERVIEW_KEYWORDS) -> INTERVIEW_STATUS
                       [] has(ASSESSMENT_KEYWORDS) -> ASSESSMENT_STATUS
                       [] has(REJECTION_KEYWORDS) -> REJECTED_STATUS
                       [] OTHER -> Null

-----------------------------------------------------------------------------
(* extractCompanyAndTitle (unnamed/part_001). The regular expressions of a   *)
(* strategy are applied to a subject, a body and a sender that the model     *)
(* does not hold: what a strategy finds is a candidate that has passed the   *)
(* checks of the strategy, or Null when nothing matched or the match was     *)
(* skipped.                                                                  *)

\* company names and titles the patterns can capture
CompanyCandidates == {"Acme Corp", "Globex", "X"}
TitleCandidates == {"software engineer", "Designer (Remote)", "QA"}

\* lines 249-268: both fields start as the sentinel, the sender is parsed
\* for the fallback of step 5
ExtractStart ==
    /\ run = Idle
    /\ \E platform \in {"Wellfound", "Other"}, plainBody \in BOOLEAN,
          fromWellfoundTeam \in BOOLEAN,
          fromName \in {Null, "Initech"}, fromDomain \in {Null, "Hooli"} :
         run' = [pc |-> "platform",
                 platform |-> platform,
                 plainBody |-> plainBody,
                 fromWellfoundTeam |-> fromWellfoundTeam,
                 tempCompanyFromName |-> fromName,
                 tempCompanyFromDomain |-> fromDomain,
                 company |-> MANUAL_REVIEW_NEEDED,
                 title |-> MANUAL_REVIEW_NEEDED,
                 companyBy |-> Null,
                 titleBy |-> Null]
    /\ UNCHANGED <<labels, lastApply, arrived, sheet, now, hist, missing, overlapped>>

\* lines 273-364: step 1, the rules of Wellfound: the company from the
\* subject or the body header, the title near the header, then the title
\* of the '* ' pattern
ExtractPlatform ==
    /\ run.pc = "platform"
    /\ IF run.platform = "Wellfound" /\ run.plainBody
       THEN \E wfCompany \in CompanyCandidates \cup {Null},
               nearHeader, starTitle \in TitleCandidates \cup {Null} :
              LET company == IF wfCompany # Null THEN wfCompany ELSE run.company
                  title1 == IF /\ company # MANUAL_REVIEW_NEEDED
                               /\ run.title = MANUAL_REVIEW_NEEDED
                               /\ nearHeader # Null
                            THEN nearHeader ELSE run.title
                  title == IF /\ title1 = MANUAL_REVIEW_NEEDED
                              /\ run.fromWellfoundTeam
                              /\ starTitle # Null
                           THEN starTitle ELSE title1
              IN  run' = [run EXCEPT
                             !.pc = "simpleSubject",
                             !.company = company,
                             !.title = title,
                             !.companyBy = IF company # run.company THEN "platform" ELSE @,
                             !.titleBy = IF title # run.title THEN "platform" ELSE @]
       ELSE run' = [run EXCEPT !.pc = "simpleSubject"]
    /\ UNCHANGED <<labels, lastApply, arrived, sheet, now, hist, missing, overlapped>>

\* lines 370-387: step 2, the simple subject patterns, for the company
ExtractSimpleSubject ==
    /\ run.pc = "simpleSubject"
    /\ \E potentialCompany \in CompanyCandidates \cup {Null} :
         run' = IF run.company = MANUAL_REVIEW_NEEDED /\ potentialCompany # Null
                THEN [run EXCEPT !.pc = "complexSubject",
                                 !.company = potentialCompany,
                                 !.companyBy = "subject"]
                ELSE [run EXCEPT !.pc = "complexSubject"]
    /\ UNCHANGED <<labels, lastApply, arrived, sheet, now, hist, missing, overlapped>>

\* lines 411-444: the loop over the complex patterns that match, in the
\* order of the list; it stops when both fields are found
RECURSIVE afterComplexPatterns(_, _)
afterComplexPatterns(r, matches) ==
    IF matches = <<>> THEN r
    ELSE LET match == Head(matches)
             title == IF r.title = MANUAL_REVIEW_NEEDED /\ match.title # Null
                      THEN match.title ELSE r.title
             company == IF r.company = MANUAL_REVIEW_NEEDED /\ match.company # Null
                        THEN match.company ELSE r.company
             found == [r EXCEPT
                          !.title = title,
                          !.company = company,
                          !.titleBy = IF title # r.title THEN "subject" ELSE @,
                          !.companyBy = IF company # r.company THEN "subject" ELSE @]
         IN  IF company # MANUAL_REVIEW_NEEDED /\ title # MANUAL_REVIEW_NEEDED
             THEN found
             ELSE afterComplexPatterns(found, Tail(matches))

\* lines 390-446: step 3, the complex subject patterns
ExtractComplexSubject ==
    /\ run.pc = "complexSubject"
    /\ LET Matches == [title : TitleCandidates \cup {Null},
                       company : CompanyCandidates \cup {Null}]
       IN  \E matches \in {<<>>} \cup {<<a>> : a \in Matches}
                              \cup {<<a, b>> : a \in Matches, b \in Matches} :
             run' = IF \/ run.company = MANUAL_REVIEW_NEEDED
                       \/ run.title = MANUAL_REVIEW_NEEDED
                    THEN [afterComplexPatterns(run, matches) EXCEPT !.pc = "bodyScan"]
                    ELSE [run EXCEPT !.pc = "bodyScan"]
    /\ UNCHANGED <<labels, lastApply, arrived, sheet, now, hist, missing, overlapped>>

\* lines 449-497: step 4, the scan of the start of the body; the title found
\* there is given capitals (line 489)
ExtractBodyScan ==
    /\ run.pc = "bodyScan"
    /\ \E potentialCompany \in CompanyCandidates \cup {Null},
          potentialTitle \in {"Data Analyst", Null} :
         LET scanned == /\ run.plainBody
                        /\ \/ run.company = MANUAL_REVIEW_NEEDED
                           \/ run.title = MANUAL_REVIEW_NEEDED
             company == IF /\ scanned
                           /\ run.company = MANUAL_REVIEW_NEEDED
                           /\ potentialCompany # Null
                        THEN potentialCompany ELSE run.company
             title == IF /\ scanned
                         /\ run.title = MANUAL_REVIEW_NEEDED
                         /\ potentialTitle # Null
                      THEN potentialTitle ELSE run.title
         IN  run' = [run EXCEPT
                        !.pc = "senderInfo",
                        !.company = company,
                        !.title = title,
                        !.companyBy = IF company # run.company THEN "body" ELSE @,
                        !.titleBy = IF title # run.title THEN "body" ELSE @]
    /\ UNCHANGED <<labels, lastApply, arrived, sheet, now, hist, missing, overlapped>>

\* the fallback that takes the name of the sender whatever was found before
companyFromSenderUnguarded(company, tempCompanyFromName, tempCompanyFromDomain) ==
    IF tempCompanyFromName # Null THEN tempCompanyFromName
    ELSE IF tempCompanyFromDomain # Null THEN tempCompanyFromDomain
    ELSE company

\* lines 500-511: the company after step 5
companyFromSender(company, tempCompanyFromName, tempCompanyFromDomain) ==
    IF company # MANUAL_REVIEW_NEEDED THEN company
    ELSE IF tempCompanyFromName # Null THEN tempCompanyFromName
    ELSE IF tempCompanyFromDomain # Null THEN tempCompanyFromDomain
    ELSE company

\* lines 500-511: step 5, the display name of the sender, else its domain
ExtractSenderInfo ==
    /\ run.pc = "senderInfo"
    /\ LET company == companyFromSender(run.company, run.tempCompanyFromName,
                                     run.tempCompanyFromDomain)
       IN  run' = [run EXCEPT
                      !.pc = "cleaning",
                      !.company = company,
                      !.companyBy =
                          IF company = run.company THEN @
                          ELSE IF company = run.tempCompanyFromName THEN "senderName"
                          ELSE "senderDomain"]
    /\ UNCHANGED <<labels, lastApply, arrived, sheet, now, hist, missing, overlapped>>

\* lines 516-527: the legal suffix is cut off; a name of fewer than two
\* characters is given up
cleanCompany(company) ==
    CASE company = "Acme Corp" -> "Acme"
      [] company = "X" -> MANUAL_REVIEW_NEEDED
      [] OTHER -> company

\* lines 533-556: the parenthesis with the place of work is cut off, a title
\* of fewer than three characters is given up, the words get capitals
cleanTitle(title) ==
    CASE title = "software engineer" -> "Software Engineer"
      [] title = "Designer (Remote)" -> "Designer"
      [] title = "QA" -> MANUAL_REVIEW_NEEDED
      [] OTHER -> title

\* lines 514-562: step 6, the final cleaning, and the return
ExtractCleaning ==
    /\ run.pc = "cleaning"
    /\ run' = [run EXCEPT
                  !.pc = "returned",
                  !.company = IF @ # MANUAL_REVIEW_NEEDED THEN cleanCompany(@) ELSE @,
                  !.title = IF @ # MANUAL_REVIEW_NEEDED THEN cleanTitle(@) ELSE @]
    /\ UNCHANGED <<labels, lastApply, arrived, sheet, now, hist, missing, overlapped>>

ExtractInit ==
    /\ labels = [t \in Threads |-> {}]
    /\ lastApply = NoApply
    /\ arrived = <<>>
    /\ sheet = <<>>
    /\ now = 0
    /\ run = Idle
    /\ hist = {}
    /\ missing = {}
    /\ overlapped = Idle

ExtractNext ==
    \/ ExtractStart
    \/ ExtractPlatform
    \/ ExtractSimpleSubject
    \/ ExtractComplexSubject
    \/ ExtractBodyScan
    \/ ExtractSenderInfo
    \/ ExtractCleaning

SpecExtract == ExtractInit /\ [][ExtractNext]_vars

\* the place of a step in the chain of extractCompanyAndTitle
strategyOrder(pc) ==
    CASE pc = "platform" -> 1
      [] pc = "simpleSubject" -> 2
      [] pc = "complexSubject" -> 3
      [] pc = "bodyScan" -> 4
      [] pc = "senderInfo" -> 5
      [] pc = "cleaning" -> 6
      [] pc = "returned" -> 7

\* C31: the strategies run in the fixed order platform rules, subject
\* patterns, body scan, sender name, sender domain, and the first strategy
\* that resolves a field wins: a step before the final cleaning leaves a
\* resolved company and a resolved title as they are, the sender's name is
\* taken before its domain, and only the final cleaning turns a resolved
\* field back into the sentinel.
C31_FirstStrategyWins ==
    [][run # Idle =>
          /\ strategyOrder(run'.pc) = strategyOrder(run.pc) + 1
          /\ run.pc # "cleaning" =>
                /\ run.company # MANUAL_REVIEW_NEEDED => run'.company = run.company
                /\ run.title # MANUAL_REVIEW_NEEDED => run'.title = run.title
          /\ (/\ run.pc = "senderInfo"
              /\ run.company = MANUAL_REVIEW_NEEDED
              /\ run.tempCompanyFromName # Null)
                => run'.company = run.tempCompanyFromName
          /\ run.pc = "cleaning" =>
                /\ run'.company \in {cleanCompany(run.company), MANUAL_REVIEW_NEEDED}
                /\ run'.title \in {cleanTitle(run.title), MANUAL_REVIEW_NEEDED}]_vars

\* C31 witness: the subject patterns resolved the company, and step 5 has
\* run with a sender whose name and domain give other companies: the
\* company is still the one of the subject.
C31_SubjectCompanyKeptOverSender ==
    /\ run.pc = "cleaning"
    /\ run.companyBy = "subject"
    /\ run.titleBy = "body"
    /\ run.tempCompanyFromName # Null
    /\ run.tempCompanyFromDomain # Null
    /\ run.company \notin {run.tempCompanyFromName, run.tempCompanyFromDomain}

-----------------------------------------------------------------------------
(* Properties of applyFinalLabels *)

TerminalLabels == {GMAIL_LABEL_APPLIED_AFTER_PROCESSING, GMAIL_LABEL_MANUAL_REVIEW}

\* C9: after a call whose Gmail calls all went through, every thread with a
\* recorded outcome is without the to-process label and carries exactly one
\* terminal label, the one of its outcome.
C9_ExactlyOneTerminalLabel ==
    (lastApply.applied /\ lastApply.faults = {}) =>
        \A t \in Threads :
            lastApply.outcomes[t] # NoOutcome =>
                /\ GMAIL_LABEL_TO_PROCESS \notin labels[t]
                /\ labels[t] \cap TerminalLabels = {targetLabel(lastApply.outcomes[t])}

\* C10: a call makes no removeLabel and no addLabel call for a thread that is
\* without the to-process label and carries the target label, and leaves its
\* labels as they were; after a call whose Gmail calls all went through, a
\* second call with the same outcomes changes no label.
C10_NoRedundantMutation ==
    lastApply.applied =>
        \A t \in Threads :
            lastApply.outcomes[t] # NoOutcome =>
                /\ (/\ GMAIL_LABEL_TO_PROCESS \notin lastApply.before[t]
                    /\ targetLabel(lastApply.outcomes[t]) \in lastApply.before[t])
                   => /\ \A c \in lastApply.calls : c[1] # t
                      /\ labels[t] = lastApply.before[t]
                /\ lastApply.faults = {}
                   => /\ labelCalls(labels[t], lastApply.outcomes[t], {}) = {}
                      /\ labelsAfter(labels[t], lastApply.outcomes[t], {}) = labels[t]

\* C10 witness: the call found a thread with a recorded outcome without the
\* to-process label and under its target label, and another thread that it
\* moved from the to-process label to its target label.
C10_AlreadyLabelled ==
    /\ lastApply.applied
    /\ lastApply.faults = {}
    /\ \E t, u \in Threads :
         /\ lastApply.outcomes[t] # NoOutcome
         /\ GMAIL_LABEL_TO_PROCESS \notin lastApply.before[t]
         /\ targetLabel(lastApply.outcomes[t]) \in lastApply.before[t]
         /\ lastApply.outcomes[u] # NoOutcome
         /\ GMAIL_LABEL_TO_PROCESS \in lastApply.before[u]
         /\ labels[u] # lastApply.before[u]

\* C32: a run reads only threads that carry the to-process label, and the
\* only label changes its steps make are the removal of the to-process label
\* and the addition of a terminal label: no step of a run adds the to-process
\* label or removes a terminal label.
C32_OnlyTerminalAddedOnlyToProcessRemoved ==
    [][/\ (run = Idle /\ run' # Idle) =>
              /\ labels' = labels
              /\ \A i \in 1..Len(run'.messagesToSort) :
                     GMAIL_LABEL_TO_PROCESS \in labels[threadOf(run'.messagesToSort[i])]
       /\ run # Idle =>
              \A t \in Threads :
                  /\ labels'[t] \ labels[t] \subseteq TerminalLabels
                  /\ labels[t] \ labels'[t] \subseteq {GMAIL_LABEL_TO_PROCESS}]_vars

\* C32 witness: a run has ended by moving a thread that carried the to-process
\* label and the manual-review label to the processed label; the thread
\* carries both terminal labels now.
C32_StaleTerminalLabelKept ==
    /\ lastApply.applied
    /\ lastApply.caller = "finish"
    /\ \E t \in lastApply.changed : labels[t] = TerminalLabels

====
